---- MODULE Spec2Model ----
(***************************************************************************)
(* A model of the Colliberator colour library: the Channel trait and its   *)
(* conversions, the Angle types and their wrapping operators, RGBColor,    *)
(* Alpha and HSVColor construction and normalisation.                      *)
(*                                                                         *)
(* The library computes with u8/u16/u32/u64, i16/i32, f32 and f64.  TLC's   *)
(* integers are too narrow for most of these, so every number of the model *)
(* is an exact dyadic value  (-1)^neg * m * 2^e  whose magnitude m is an   *)
(* unbounded natural kept as a little-endian sequence of 12-bit limbs.     *)
(* Floating-point operations compute the exact result and round it to the  *)
(* 24 (f32) or 53 (f64) significant bits of the type, ties to even, as     *)
(* IEEE 754 does; integer operations compute the exact result and check    *)
(* it against the width of the type.                                       *)
(***************************************************************************)
EXTENDS Integers, Sequences, FiniteSets, TLC

(***************************************************************************)
(* Unbounded naturals: little-endian sequences of limbs in 0..4095 with no *)
(* leading zero limb; zero is the empty sequence.                          *)
(***************************************************************************)
RECURSIVE Pow2(_)
Pow2(n) == IF n = 0 THEN 1 ELSE 2 * Pow2(n - 1)

RECURSIVE BTrim(_)
BTrim(b) ==
    IF b = <<>> THEN <<>>
    ELSE IF b[Len(b)] = 0 THEN BTrim(SubSeq(b, 1, Len(b) - 1))
    ELSE b

RECURSIVE BOfNat(_)
BOfNat(n) == IF n = 0 THEN <<>> ELSE <<n % 4096>> \o BOfNat(n \div 4096)

BLimb(b, i) == IF i <= Len(b) THEN b[i] ELSE 0

BRest(b) == IF b = <<>> THEN <<>> ELSE Tail(b)

RECURSIVE BAddC(_, _, _)
BAddC(a, b, c) ==
    IF a = <<>> /\ b = <<>> THEN (IF c = 0 THEN <<>> ELSE <<c>>)
    ELSE LET s == BLimb(a, 1) + BLimb(b, 1) + c
         IN  <<s % 4096>> \o BAddC(BRest(a), BRest(b), s \div 4096)

BAdd(a, b) == BAddC(a, b, 0)

RECURSIVE BSubC(_, _, _)
BSubC(a, b, c) ==
    IF a = <<>> THEN <<>>
    ELSE LET s == a[1] - BLimb(b, 1) - c
         IN  IF s < 0 THEN <<s + 4096>> \o BSubC(Tail(a), BRest(b), 1)
             ELSE <<s>> \o BSubC(Tail(a), BRest(b), 0)

\* a - b for a >= b
BSub(a, b) == BTrim(BSubC(a, b, 0))

RECURSIVE BCmpAt(_, _, _)
BCmpAt(a, b, i) ==
    IF i = 0 THEN 0
    ELSE IF a[i] > b[i] THEN 1
    ELSE IF a[i] < b[i] THEN -1
    ELSE BCmpAt(a, b, i - 1)

\* -1, 0 or 1 as a < b, a = b or a > b
BCmp(a, b) ==
    IF Len(a) > Len(b) THEN 1
    ELSE IF Len(a) < Len(b) THEN -1
    ELSE BCmpAt(a, b, Len(a))

RECURSIVE BMulSmallC(_, _, _)
BMulSmallC(a, k, c) ==
    IF a = <<>> THEN (IF c = 0 THEN <<>> ELSE <<c>>)
    ELSE LET s == a[1] * k + c
         IN  <<s % 4096>> \o BMulSmallC(Tail(a), k, s \div 4096)

\* a * k for 0 <= k < 4096
BMulSmall(a, k) == IF k = 0 THEN <<>> ELSE BMulSmallC(a, k, 0)

RECURSIVE BMul(_, _)
BMul(a, b) ==
    IF a = <<>> \/ b = <<>> THEN <<>>
    ELSE BAdd(BMulSmall(a, b[1]),
              LET r == BMul(a, Tail(b)) IN IF r = <<>> THEN <<>> ELSE <<0>> \o r)

RECURSIVE BZeros(_)
BZeros(n) == IF n = 0 THEN <<>> ELSE <<0>> \o BZeros(n - 1)

\* a * 2^n
BShl(a, n) ==
    IF a = <<>> THEN <<>>
    ELSE BZeros(n \div 12) \o BMulSmall(a, Pow2(n % 12))

\* floor(a / 2^n)
BShr(a, n) ==
    LET k == n \div 12
        r == n % 12
        bits(d) ==
            IF r = 0 THEN d
            ELSE BTrim([i \in 1..Len(d) |->
                          (d[i] \div Pow2(r)) + (BLimb(d, i + 1) % Pow2(r)) * Pow2(12 - r)])
    IN  bits(IF k >= Len(a) THEN <<>> ELSE SubSeq(a, k + 1, Len(a)))

RECURSIVE NatBits(_)
NatBits(n) == IF n = 0 THEN 0 ELSE 1 + NatBits(n \div 2)

\* the number of significant bits of a (0 for zero)
BBits(a) == IF a = <<>> THEN 0 ELSE 12 * (Len(a) - 1) + NatBits(a[Len(a)])

\* bit i of a, bit 0 the least significant
BBit(a, i) == (BLimb(a, i \div 12 + 1) \div Pow2(i % 12)) % 2

RECURSIVE NatTz(_)
NatTz(n) == IF n % 2 = 1 THEN 0 ELSE 1 + NatTz(n \div 2)

RECURSIVE BTz(_)
\* the number of trailing zero bits of a > 0
BTz(a) == IF a[1] = 0 THEN 12 + BTz(Tail(a)) ELSE NatTz(a[1])

RECURSIVE BDivBits(_, _, _, _, _)
\* long division over the bits i..0 of one limb w of the dividend: r is the
\* remainder so far, q collects the quotient's bits; <<q, r>>
BDivBits(r, w, d, i, q) ==
    IF i < 0 THEN <<q, r>>
    ELSE LET step(r2) == IF BCmp(r2, d) >= 0
                         THEN BDivBits(BSub(r2, d), w, d, i - 1, 2 * q + 1)
                         ELSE BDivBits(r2, w, d, i - 1, 2 * q)
         IN  step(BAddC(r, r, (w \div Pow2(i)) % 2))

RECURSIVE BDivLimbs(_, _, _, _, _)
\* long division limb by limb from the most significant limb j of n down
BDivLimbs(n, d, j, q, r) ==
    IF j = 0 THEN <<BTrim(q), r>>
    ELSE LET next(s) == BDivLimbs(n, d, j - 1, <<s[1]>> \o q, s[2])
         IN  next(BDivBits(r, n[j], d, 11, 0))

\* <<floor(n / d), n mod d>> for d > 0
BDivMod(n, d) == BDivLimbs(n, d, Len(n), <<>>, <<>>)

(***************************************************************************)
(* Numbers.  A value is a record [k, neg, m, e]: k = "fin" is the exact    *)
(* value (-1)^neg * m * 2^e with m odd (or m zero and e = 0, so that -0.0  *)
(* and 0.0 are two values, as in IEEE 754); k = "inf" is an infinity of    *)
(* sign neg; k = "nan" is a NaN; k = "panic" stands for a call that did    *)
(* not return (an unwrap of None, an overflow check, a division by zero).  *)
(***************************************************************************)
Fin(neg, m, e) ==
    IF m = <<>> THEN [k |-> "fin", neg |-> neg, m |-> <<>>, e |-> 0]
    ELSE LET odd(t) == [k |-> "fin", neg |-> neg, m |-> BShr(m, t), e |-> e + t]
         IN  odd(BTz(m))

NaN == [k |-> "nan", neg |-> FALSE, m |-> <<>>, e |-> 0]

Inf(neg) == [k |-> "inf", neg |-> neg, m |-> <<>>, e |-> 0]

Panic == [k |-> "panic", neg |-> FALSE, m |-> <<>>, e |-> 0]

\* the integer n
Whole(n) == IF n < 0 THEN Fin(TRUE, BOfNat(0 - n), 0) ELSE Fin(FALSE, BOfNat(n), 0)

\* the dyadic value n * 2^e for an integer n
Dy(n, e) == IF n < 0 THEN Fin(TRUE, BOfNat(0 - n), e) ELSE Fin(FALSE, BOfNat(n), e)

\* 2^n - 1 and 2^n
Ones(n) == Fin(FALSE, BSub(BShl(<<1>>, n), <<1>>), 0)
TwoTo(n) == Fin(FALSE, <<1>>, n)

IsFin(x) == x.k = "fin"
IsZero(x) == x.k = "fin" /\ x.m = <<>>
IsPanic(x) == x.k = "panic"

\* the magnitudes of two finite values compared: -1, 0, 1
MagCmp(a, b) ==
    IF a.m = <<>> \/ b.m = <<>>
    THEN (IF a.m = b.m THEN 0 ELSE IF a.m = <<>> THEN -1 ELSE 1)
    ELSE LET ta == BBits(a.m) + a.e
             tb == BBits(b.m) + b.e
         IN  IF ta > tb THEN 1
             ELSE IF ta < tb THEN -1
             ELSE IF a.e >= b.e THEN BCmp(BShl(a.m, a.e - b.e), b.m)
             ELSE BCmp(a.m, BShl(b.m, b.e - a.e))

\* two finite values compared: -1, 0, 1; the two zeros are equal
FinCmp(a, b) ==
    IF a.m = <<>> /\ b.m = <<>> THEN 0
    ELSE IF a.m = <<>> THEN (IF b.neg THEN 1 ELSE -1)
    ELSE IF b.m = <<>> THEN (IF a.neg THEN -1 ELSE 1)
    ELSE IF a.neg /\ ~b.neg THEN -1
    ELSE IF ~a.neg /\ b.neg THEN 1
    ELSE IF a.neg THEN 0 - MagCmp(a, b)
    ELSE MagCmp(a, b)

\* the comparison of PartialOrd: -1, 0, 1, or 2 when there is none (a NaN)
Cmp(a, b) ==
    IF a.k = "nan" \/ b.k = "nan" THEN 2
    ELSE IF a.k = "inf" /\ b.k = "inf"
         THEN (IF a.neg = b.neg THEN 0 ELSE IF a.neg THEN -1 ELSE 1)
    ELSE IF a.k = "inf" THEN (IF a.neg THEN -1 ELSE 1)
    ELSE IF b.k = "inf" THEN (IF b.neg THEN 1 ELSE -1)
    ELSE FinCmp(a, b)

Lt(a, b) == Cmp(a, b) = -1
Gt(a, b) == Cmp(a, b) = 1
Le(a, b) == Cmp(a, b) \in {-1, 0}
Ge(a, b) == Cmp(a, b) \in {0, 1}
Eq(a, b) == Cmp(a, b) = 0

Neg(x) == IF x.k \in {"fin", "inf"} THEN [x EXCEPT !.neg = ~x.neg] ELSE x

\* the exact sum of two finite values; a zero sum of opposite signs is +0
ExactAdd(a, b) ==
    LET lo == IF a.e < b.e THEN a.e ELSE b.e
        sum(am, bm, c) ==
            IF a.neg = b.neg THEN Fin(a.neg, BAdd(am, bm), lo)
            ELSE IF c = 0 THEN Fin(FALSE, <<>>, 0)
            ELSE IF c > 0 THEN Fin(a.neg, BSub(am, bm), lo)
            ELSE Fin(b.neg, BSub(bm, am), lo)
        aligned(am, bm) == sum(am, bm, BCmp(am, bm))
    IN  aligned(BShl(a.m, a.e - lo), BShl(b.m, b.e - lo))

ExactMul(a, b) == Fin(a.neg # b.neg, BMul(a.m, b.m), a.e + b.e)

(***************************************************************************)
(* The formats: significant bits, the exponent of the smallest subnormal   *)
(* and the exponent above the largest finite value.                        *)
(***************************************************************************)
Prec(ty) == IF ty = "f64" THEN 53 ELSE 24
EMin(ty) == IF ty = "f64" THEN 0 - 1074 ELSE 0 - 149
EMax(ty) == IF ty = "f64" THEN 1024 ELSE 128

\* a finite magnitude m * 2^e (m any natural) rounded to the format, ties to even
RoundTo(ty, neg, m, e) ==
    IF m = <<>> THEN Fin(neg, <<>>, 0)
    ELSE LET result(r, drop) ==
                 IF BBits(r) + e + drop > EMax(ty) THEN Inf(neg) ELSE Fin(neg, r, e + drop)
             nearest(q, drop) ==
                 LET half   == BBit(m, drop - 1) = 1
                     sticky == BTz(m) < drop - 1
                 IN  IF half /\ (sticky \/ BBit(q, 0) = 1)
                     THEN result(BAddC(q, <<>>, 1), drop)
                     ELSE result(q, drop)
             dropping(drop) ==
                 IF drop <= 0 THEN Fin(neg, m, e) ELSE nearest(BShr(m, drop), drop)
             bits(over, sub) == dropping(IF over > sub THEN over ELSE sub)
         IN  bits(BBits(m) - Prec(ty), EMin(ty) - e)

\* a value rounded to the format (an integer cast to a float, f64 to f32)
Round(ty, x) ==
    IF x.k # "fin" THEN x
    ELSE IF BBits(x.m) + x.e > EMax(ty) THEN Inf(x.neg)
    ELSE RoundTo(ty, x.neg, x.m, x.e)

\* a + b in the format
FAdd(ty, a, b) ==
    IF a.k = "panic" \/ b.k = "panic" THEN Panic
    ELSE IF a.k = "nan" \/ b.k = "nan" THEN NaN
    ELSE IF a.k = "inf" /\ b.k = "inf" THEN (IF a.neg = b.neg THEN a ELSE NaN)
    ELSE IF a.k = "inf" THEN a
    ELSE IF b.k = "inf" THEN b
    ELSE IF IsZero(a) /\ IsZero(b) THEN Fin(a.neg /\ b.neg, <<>>, 0)
    ELSE Round(ty, ExactAdd(a, b))

FSub(ty, a, b) == FAdd(ty, a, Neg(b))

FMul(ty, a, b) ==
    IF a.k = "panic" \/ b.k = "panic" THEN Panic
    ELSE IF a.k = "nan" \/ b.k = "nan" THEN NaN
    ELSE IF a.k = "inf" \/ b.k = "inf"
         THEN (IF IsZero(a) \/ IsZero(b) THEN NaN ELSE Inf(a.neg # b.neg))
    ELSE Round(ty, ExactMul(a, b))

\* a / b in the format: the quotient to two bits more than the format holds,
\* with a last bit that says whether anything is left, then rounded
FDiv(ty, a, b) ==
    IF a.k = "panic" \/ b.k = "panic" THEN Panic
    ELSE IF a.k = "nan" \/ b.k = "nan" THEN NaN
    ELSE IF a.k = "inf" THEN (IF b.k = "inf" THEN NaN ELSE Inf(a.neg # b.neg))
    ELSE IF b.k = "inf" THEN Fin(a.neg # b.neg, <<>>, 0)
    ELSE IF IsZero(b) THEN (IF IsZero(a) THEN NaN ELSE Inf(a.neg # b.neg))
    ELSE IF IsZero(a) THEN Fin(a.neg # b.neg, <<>>, 0)
    ELSE LET quotient(qr, s) ==
                 RoundTo(ty, a.neg # b.neg,
                         BAddC(qr[1], qr[1], IF qr[2] = <<>> THEN 0 ELSE 1), a.e - b.e - s - 1)
             shifted(s) == quotient(BDivMod(BShl(a.m, s), b.m), s)
             wanted(want) == shifted(IF want > 0 THEN want ELSE 0)
         IN  wanted(Prec(ty) + 2 + BBits(b.m) - BBits(a.m))

\* a % b on floats (fmod): exact, with the sign of a
FRem(a, b) ==
    IF a.k = "panic" \/ b.k = "panic" THEN Panic
    ELSE IF a.k = "nan" \/ b.k = "nan" \/ a.k = "inf" \/ IsZero(b) THEN NaN
    ELSE IF b.k = "inf" THEN a
    ELSE IF MagCmp(a, b) < 0 THEN a
    ELSE LET lo == IF a.e < b.e THEN a.e ELSE b.e
         IN  Fin(a.neg, BDivMod(BShl(a.m, a.e - lo), BShl(b.m, b.e - lo))[2], lo)

\* f32::round: to the nearest whole number, halves away from zero
FRoundInt(x) ==
    IF x.k # "fin" \/ x.e >= 0 THEN x
    ELSE Fin(x.neg, BAddC(BShr(x.m, 0 - x.e), <<>>, BBit(x.m, 0 - x.e - 1)), 0)

\* the whole part, towards zero
FTrunc(x) == IF x.k # "fin" \/ x.e >= 0 THEN x ELSE Fin(x.neg, BShr(x.m, 0 - x.e), 0)

(***************************************************************************)
(* The channel types.  An angle type is named as in the source.            *)
(***************************************************************************)
UIntTypes == {"u8", "u16", "u32", "u64"}
IntTypes == UIntTypes \cup {"i16", "i32"}
FloatTypes == {"f32", "f64"}
DegTypes == {"Deg<i16>", "Deg<i32>", "Deg<f32>"}
IntRevTypes == {"Rev<u8>", "Rev<u16>", "Rev<u32>"}
AngleTypes == DegTypes \cup {"Rad", "Rev<f32>"} \cup IntRevTypes

\* Angle::Inner: the primitive type a value of the type is stored as
Inner(ty) ==
    CASE ty = "Deg<i16>" -> "i16"
      [] ty = "Deg<i32>" -> "i32"
      [] ty \in {"Deg<f32>", "Rad", "Rev<f32>"} -> "f32"
      [] ty = "Rev<u8>" -> "u8"
      [] ty = "Rev<u16>" -> "u16"
      [] ty = "Rev<u32>" -> "u32"
      [] OTHER -> ty

\* Angle::INTEGER, and the same question of a primitive type
IsInt(ty) == Inner(ty) \in IntTypes

IntBits(ty) ==
    CASE Inner(ty) = "u8" -> 8
      [] Inner(ty) \in {"u16", "i16"} -> 16
      [] Inner(ty) \in {"u32", "i32"} -> 32
      [] Inner(ty) = "u64" -> 64

IsSigned(ty) == Inner(ty) \in {"i16", "i32"}

\* <$type>::max_value() and <$type>::min_value()
max_value(ty) == IF IsSigned(ty) THEN Ones(IntBits(ty) - 1) ELSE Ones(IntBits(ty))
min_value(ty) == IF IsSigned(ty) THEN Neg(TwoTo(IntBits(ty) - 1)) ELSE Whole(0)

\* a zero result of integer arithmetic has no sign
Unsigned0(x) == IF IsZero(x) THEN Whole(0) ELSE x

(***************************************************************************)
(* num_traits::NumCast::from(n): Some(value) or None.  To a float type the *)
(* value is rounded to the format (Rust's `as`).  To an integer type a NaN *)
(* or an infinity is None, anything else is truncated towards zero and is  *)
(* None when the truncated value is outside MIN..MAX.  None is Panic here, *)
(* because every caller unwraps it.                                        *)
(***************************************************************************)
NumCast_from(ty, n) ==
    IF n.k = "panic" THEN Panic
    ELSE IF ~IsInt(ty) THEN Round(Inner(ty), n)
    ELSE IF n.k # "fin" THEN Panic
    ELSE LET checked(t) ==
                 IF Lt(t, min_value(ty)) \/ Gt(t, max_value(ty)) THEN Panic ELSE t
         IN  checked(Unsigned0(FTrunc(n)))

\* lib.rs: cuw, cuwf and cuwtf unwrap a NumCast
cuw(ty, n) == NumCast_from(ty, n)
cuwf(ty, float) == NumCast_from(ty, float)
cuwtf(n) == NumCast_from("f32", n)

(***************************************************************************)
(* Integer arithmetic of the primitive types.  A result outside the type   *)
(* panics when the build checks overflow (checks) and wraps around modulo  *)
(* 2^bits when it does not; a division or remainder by zero always panics. *)
(***************************************************************************)
\* a whole number reduced modulo 2^bits into the range of the type
wrapping(ty, x) ==
    LET w == IntBits(ty)
        signed(u) ==
            IF IsSigned(ty) /\ BBits(u) = w
            THEN Fin(TRUE, BSub(BShl(<<1>>, w), u), 0)
            ELSE Fin(FALSE, u, 0)
        unsigned(low) ==
            signed(IF x.neg /\ low # <<>> THEN BSub(BShl(<<1>>, w), low) ELSE low)
        low_bits(mag) == unsigned(BSub(mag, BShl(BShr(mag, w), w)))
    IN  low_bits(BShl(x.m, x.e))

overflowing(ty, x, checks) ==
    IF Lt(x, min_value(ty)) \/ Gt(x, max_value(ty))
    THEN (IF checks THEN Panic ELSE wrapping(ty, x))
    ELSE Unsigned0(x)

\* the operators of std::ops on the inner type of ty
prim_add(ty, a, b, checks) ==
    IF a.k = "panic" \/ b.k = "panic" THEN Panic
    ELSE IF IsInt(ty) THEN overflowing(ty, ExactAdd(a, b), checks)
    ELSE FAdd(Inner(ty), a, b)

prim_sub(ty, a, b, checks) ==
    IF a.k = "panic" \/ b.k = "panic" THEN Panic
    ELSE IF IsInt(ty) THEN overflowing(ty, ExactAdd(a, Neg(b)), checks)
    ELSE FSub(Inner(ty), a, b)

prim_mul(ty, a, b, checks) ==
    IF a.k = "panic" \/ b.k = "panic" THEN Panic
    ELSE IF IsInt(ty) THEN overflowing(ty, ExactMul(a, b), checks)
    ELSE FMul(Inner(ty), a, b)

\* an integer division truncates; MIN / -1 overflows in every build
prim_div(ty, a, b) ==
    IF a.k = "panic" \/ b.k = "panic" THEN Panic
    ELSE IF ~IsInt(ty) THEN FDiv(Inner(ty), a, b)
    ELSE IF IsZero(b) THEN Panic
    ELSE overflowing(ty, Fin(a.neg # b.neg,
                             BDivMod(BShl(a.m, a.e), BShl(b.m, b.e))[1], 0), TRUE)

\* the remainder has the sign of the dividend; MIN % -1 overflows in every
\* build, as MIN / -1 does
prim_rem(ty, a, b) ==
    IF a.k = "panic" \/ b.k = "panic" THEN Panic
    ELSE IF ~IsInt(ty) THEN FRem(a, b)
    ELSE IF IsZero(b) THEN Panic
    ELSE IF IsSigned(ty) /\ Eq(a, min_value(ty)) /\ Eq(b, Whole(0 - 1)) THEN Panic
    ELSE Unsigned0(FRem(a, b))

\* fun is the method name: add, sub, mul, div or rem
prim_op(ty, fun, a, b, checks) ==
    CASE fun = "add" -> prim_add(ty, a, b, checks)
      [] fun = "sub" -> prim_sub(ty, a, b, checks)
      [] fun = "mul" -> prim_mul(ty, a, b, checks)
      [] fun = "div" -> prim_div(ty, a, b)
      [] fun = "rem" -> prim_rem(ty, a, b)

(***************************************************************************)
(* channel/angle.rs: trait Angle                                           *)
(***************************************************************************)
\* std::f32::consts::PI, the f32 nearest to pi
PI32 == Dy(13176795, 0 - 22)

full_angle(ty) ==
    CASE ty \in DegTypes -> Whole(360)
      [] ty = "Rad" -> FMul("f32", Whole(2), PI32)
      [] ty \in IntRevTypes -> max_value(ty)
      [] ty = "Rev<f32>" -> Whole(1)

zero_angle(ty) == Whole(0)

\* Angle::wrap: if a < zero() { (a + full()).into() } else { a.into() }
wrap_positive(ty, a) ==
    IF Lt(a, zero_angle(ty)) THEN prim_add(ty, a, full_angle(ty), TRUE) ELSE a

\* Angle::wrap (the integer revolution types override it with the identity)
wrap(ty, x) ==
    IF ty \in IntRevTypes THEN x ELSE wrap_positive(ty, prim_rem(ty, x, full_angle(ty)))

(***************************************************************************)
(* channel.rs: trait Channel, its implementations for the primitive types  *)
(* and (channel/angle.rs) for every angle type                             *)
(***************************************************************************)
ch_max(ty) ==
    CASE ty \in UIntTypes -> max_value(ty)
      [] ty \in FloatTypes -> Whole(1)
      [] ty \in AngleTypes -> full_angle(ty)

ch_zero(ty) ==
    CASE ty \in UIntTypes -> Whole(0)
      [] ty \in FloatTypes -> Whole(0)
      [] ty \in AngleTypes -> zero_angle(ty)

ch_mid(ty) ==
    CASE ty \in UIntTypes -> prim_div(ty, max_value(ty), Whole(2))
      [] ty \in FloatTypes -> Dy(1, 0 - 1)
      [] ty \in AngleTypes -> cuwf(ty, FDiv("f32", cuwtf(ch_max(ty)), cuwtf(Whole(2))))

in_range(ty, x) == Le(x, ch_max(ty)) /\ Ge(x, ch_zero(ty))

to_range(ty, x) ==
    IF Gt(x, ch_max(ty)) THEN ch_max(ty)
    ELSE IF Lt(x, ch_zero(ty)) THEN ch_zero(ty)
    ELSE x

\* Channel::conv: the float type the scaling is computed in, f32, or f64 in
\* the implementations for u64 and f64
conv_float(S) == IF S \in {"u64", "f64"} THEN "f64" ELSE "f32"

\* Channel::conv: a value of the type S as the float the scaling is computed
\* in: `as f64` of a u64, the f64 itself, cuw::<_, f32> of any other type
conv_operand(S, v) ==
    CASE S = "u64" -> Round("f64", v)
      [] S = "f64" -> v
      [] OTHER -> cuw("f32", v)

\* the scaling of Channel::conv, before the rounding:
\* self.to_range() / Self::ch_max() * T::ch_max()
conv_scale(S, T, x) ==
    FMul(conv_float(S),
         FDiv(conv_float(S), conv_operand(S, to_range(S, x)), conv_operand(S, ch_max(S))),
         cuw(conv_float(S), ch_max(T)))

\* a conversion that cuts the fraction off instead of rounding
conv_truncating(S, T, x) == cuw(T, FTrunc(conv_scale(S, T, x)))

\* Channel::conv::<T>() on a value x of type S
conv(S, T, x) == cuwf(T, FRoundInt(conv_scale(S, T, x)))

\* Channel::clamp of a primitive type: the clamp into [ch_zero, ch_max]
clamp_primitive(ty, x) == to_range(ty, x)

\* Channel::clamp: every angle type overrides it with Angle::wrap
clamp(ty, x) == IF ty \in AngleTypes THEN wrap(ty, x) ELSE clamp_primitive(ty, x)

(***************************************************************************)
(* channel/angle.rs: the operators of the angle types.  A binary operator  *)
(* applies the operator of the inner type and wraps the result; a compound *)
(* assignment applies the compound assignment of the inner type.           *)
(***************************************************************************)
OpFuns == {"add", "sub", "mul", "div", "rem"}

angle_op(ty, fun, lhs, rhs, checks) ==
    wrap(ty, prim_op(ty, fun, lhs, rhs, checks))

angle_op_assign(ty, fun, lhs, rhs, checks) == prim_op(ty, fun, lhs, rhs, checks)

(***************************************************************************)
(* rgb.rs: RGBColor<T, S>, a record of its three channels; alpha.rs:       *)
(* Alpha<C, A>, a colour and its alpha channel.                            *)
(***************************************************************************)
\* the channels of an RGBColor, for RGBColor::map
RGBChannels == {"r", "g", "b"}

\* RGBColor { r, g, b }.map(Channel::clamp)
RGBColor_normalize(T, c) == [ch \in RGBChannels |-> clamp(T, c[ch])]

RGBColor_new(T, r, g, b) == RGBColor_normalize(T, [r |-> r, g |-> g, b |-> b])

RGBColor_is_normal(T, c) == in_range(T, c.r) /\ in_range(T, c.g) /\ in_range(T, c.b)

\* Alpha::new(color, alpha), the colour given as a tuple and made by From
Alpha_new(T, A, rgb, alpha) ==
    [color |-> RGBColor_new(T, rgb[1], rgb[2], rgb[3]), alpha |-> to_range(A, alpha)]

Alpha_normalize(T, A, c) ==
    [color |-> RGBColor_normalize(T, c.color), alpha |-> to_range(A, c.alpha)]

Alpha_is_normal(T, A, c) == RGBColor_is_normal(T, c.color) /\ in_range(A, c.alpha)

(***************************************************************************)
(* hsv.rs: HSVColor<H, T, S>                                               *)
(***************************************************************************)
HSVColor_default(H, T) == [h |-> ch_zero(H), s |-> ch_zero(T), v |-> ch_zero(T)]

\* a normalize that forgets the zero-saturation case
HSVColor_normalize_no_grey(H, T, c) ==
    IF Eq(c.v, ch_zero(T)) THEN HSVColor_default(H, T)
    ELSE [h |-> clamp(H, c.h), s |-> clamp(T, c.s), v |-> clamp(T, c.v)]

\* the channels of an HSVColor and their types
HSVChannels == {"h", "s", "v"}
hsv_type(H, T, f) == IF f = "h" THEN H ELSE T

HSVColor_normalize(H, T, c) ==
    IF Eq(c.v, ch_zero(T)) THEN HSVColor_default(H, T)
    ELSE [f \in HSVChannels |->
             IF f # "v" /\ Eq(c.s, ch_zero(T)) THEN ch_zero(hsv_type(H, T, f))
             ELSE clamp(hsv_type(H, T, f), c[f])]

HSVColor_new(H, T, h, s, v) == HSVColor_normalize(H, T, [h |-> h, s |-> s, v |-> v])

HSVColor_is_normal(H, T, c) ==
    IF ~in_range(H, c.h) \/ ~in_range(T, c.s) \/ ~in_range(T, c.v) THEN FALSE
    ELSE IF Eq(c.v, ch_zero(T)) THEN Eq(c.h, ch_zero(H)) /\ Eq(c.s, ch_zero(T))
    ELSE IF Eq(c.s, ch_zero(T)) THEN Eq(c.h, ch_zero(H))
    ELSE TRUE

\* f32::max, f32::min and f32::abs: max and min return the other operand
\* when one is NaN
FMax(a, b) == IF a.k = "nan" THEN b ELSE IF b.k = "nan" THEN a ELSE IF Lt(a, b) THEN b ELSE a

FMin(a, b) == IF a.k = "nan" THEN b ELSE IF b.k = "nan" THEN a ELSE IF Lt(b, a) THEN b ELSE a

FAbs(x) == IF x.k \in {"fin", "inf"} THEN [x EXCEPT !.neg = FALSE] ELSE x

\* `x as u8` of an f32: towards zero, saturating, NaN to 0
as_u8(x) ==
    IF x.k = "nan" THEN Whole(0)
    ELSE IF Lt(x, Whole(0)) THEN Whole(0)
    ELSE IF Gt(x, Whole(255)) THEN Whole(255)
    ELSE Unsigned0(FTrunc(x))

\* RGBColor::conv::<U>()
RGBColor_conv(T, U, c) == [ch \in RGBChannels |-> conv(T, U, c[ch])]

\* RGBColor::hsv: the hue in degrees, from the f32 channels
hsv_hue(r, g, b, max, delta) ==
    FMul("f32", Whole(60),
         IF Eq(delta, Whole(0)) THEN Whole(0)
         ELSE IF Eq(max, r) THEN FRem(FDiv("f32", FSub("f32", g, b), delta), Whole(6))
         ELSE IF Eq(max, g) THEN FAdd("f32", FDiv("f32", FSub("f32", b, r), delta), Whole(2))
         ELSE FAdd("f32", FDiv("f32", FSub("f32", r, g), delta), Whole(4)))

hsv_saturation(max, delta) == IF Eq(max, Whole(0)) THEN Whole(0) ELSE FDiv("f32", delta, max)

\* a call that panicked returns no colour: a colour of Panic channels
PanicHSV == [h |-> Panic, s |-> Panic, v |-> Panic]

\* HSVColor::new on arguments that are evaluated before the call: no colour
\* is made when the evaluation of one of them panicked
hsv_of_conv(H, T, c) ==
    IF \E f \in HSVChannels : IsPanic(c[f]) THEN PanicHSV ELSE HSVColor_normalize(H, T, c)

\* RGBColor::hsv: HSVColor::new(hue.conv::<H>(), saturation.conv(), value.conv())
hsv_of_f32(H, T, c) ==
    hsv_of_conv(H, T,
        [f \in HSVChannels |->
            conv(IF f = "h" THEN "Deg<f32>" ELSE "f32", IF f = "h" THEN H ELSE T, c[f])])

hsv_of_delta(H, T, r, g, b, max, delta) ==
    hsv_of_f32(H, T, [h |-> hsv_hue(r, g, b, max, delta),
                      s |-> hsv_saturation(max, delta),
                      v |-> max])

\* RGBColor::hsv: delta = max - min
hsv_of_max_min(H, T, r, g, b, max, min) ==
    hsv_of_delta(H, T, r, g, b, max, FSub("f32", max, min))

\* RGBColor::hsv: max = r.max(g).max(b), min = r.min(g).min(b)
hsv_of_channels(H, T, r, g, b) ==
    hsv_of_max_min(H, T, r, g, b, FMax(FMax(r, g), b), FMin(FMin(r, g), b))

\* RGBColor::hsv: (r, g, b) = self.map(Channel::conv::<f32>).tuple()
hsv_of_tuple(H, T, f) == hsv_of_channels(H, T, f.r, f.g, f.b)

\* RGBColor::<T, S>::hsv::<H>()
RGBColor_hsv(H, T, c) == hsv_of_tuple(H, T, RGBColor_conv(T, "f32", c))

PanicRGB == [r |-> Panic, g |-> Panic, b |-> Panic]

\* HSVColor::rgb: the match on the sector of the hue, PanicRGB where it panics
rgb_sector(n, mc, xc) ==
    LET rgb(r, g, b) == [r |-> r, g |-> g, b |-> b]
    IN  CASE n = Whole(0) -> rgb(mc, xc, Whole(0))
          [] n = Whole(1) -> rgb(xc, mc, Whole(0))
          [] n = Whole(2) -> rgb(Whole(0), mc, xc)
          [] n = Whole(3) -> rgb(Whole(0), xc, mc)
          [] n = Whole(4) -> rgb(xc, Whole(0), mc)
          [] n \in {Whole(5), Whole(6)} -> rgb(mc, Whole(0), xc)
          [] OTHER -> PanicRGB

\* (r, g, b).into(): From<(T, T, T)> is RGBColor::new; no colour is made
\* when a channel of the tuple was not
rgb_into(T, t) ==
    IF \E ch \in RGBChannels : IsPanic(t[ch]) THEN PanicRGB ELSE RGBColor_normalize(T, t)

\* HSVColor::rgb: (cuwf(r + min), cuwf(g + min), cuwf(b + min)).into()
rgb_of_sector(T, t, min) ==
    IF t = PanicRGB THEN PanicRGB
    ELSE rgb_into(T, [ch \in RGBChannels |-> cuwf(T, FAdd("f32", t[ch], min))])

\* HSVColor::rgb: xc = mc * (1.0 - (h % 2.0 - 1.0).abs()), min = v - mc
rgb_of_hue(T, h, v, mc) ==
    rgb_of_sector(T,
                  rgb_sector(as_u8(h), mc,
                             FMul("f32", mc,
                                  FSub("f32", Whole(1),
                                       FAbs(FSub("f32", FRem(h, Whole(2)), Whole(1)))))),
                  FSub("f32", v, mc))

\* HSVColor::<H, T, S>::rgb()
HSVColor_rgb(H, T, c) ==
    rgb_of_hue(T, FDiv("f32", cuwtf(conv(H, "Deg<f32>", c.h)), Whole(60)),
               cuwtf(c.v), FMul("f32", cuwtf(c.s), cuwtf(c.v)))

\* color.rs: the f32-only HSVColor, whose constructor panics on a saturation
\* or value outside 0.0..=1.0
color_HSVColor_new(h, s, v) ==
    IF Lt(s, Whole(0)) \/ Gt(s, Whole(1)) THEN PanicHSV
    ELSE IF Lt(v, Whole(0)) \/ Gt(v, Whole(1)) THEN PanicHSV
    ELSE LET positive(a) == IF Lt(a, Whole(0)) THEN FAdd("f32", a, Whole(360)) ELSE a
         IN  [h |-> positive(FRem(h, Whole(360))), s |-> s, v |-> v]

(***************************************************************************)
(* Blending, on the f32 colour in the linear space (LinRGBColor, the alias  *)
(* of RGBColor<f32, LinearSpace> in color/mod.rs) and on                   *)
(* Alpha<LinRGBColor, f32>.  The constructor and the operators of the      *)
(* colour store the channels as they are: nothing is clamped.              *)
(***************************************************************************)
\* util::clamp(value, min, max): max unless value compares below max, then
\* min unless value compares above min
util_clamp(value, min, max) ==
    IF Lt(value, max) THEN (IF Gt(value, min) THEN value ELSE min) ELSE max

\* RGBColor::new(r, g, b): RGBColor { r, g, b, _space: PhantomData }
LinRGBColor_new(r, g, b) == [r |-> r, g |-> g, b |-> b]

\* From<(T, T, T)> for RGBColor: r.into(), g.into(), b.into() of f32 to f32
LinRGBColor_from(r, g, b) == [r |-> r, g |-> g, b |-> b]

\* #[derive(Default)]
LinRGBColor_default == [r |-> Whole(0), g |-> Whole(0), b |-> Whole(0)]

\* impl Add, impl Mul<T>, impl Div<T> for RGBColor<T, LinearSpace>:
\* (the three results).into()
LinRGBColor_add(lhs, rhs) ==
    LinRGBColor_from(FAdd("f32", lhs.r, rhs.r), FAdd("f32", lhs.g, rhs.g),
                     FAdd("f32", lhs.b, rhs.b))

LinRGBColor_mul(lhs, rhs) ==
    LinRGBColor_from(FMul("f32", lhs.r, rhs), FMul("f32", lhs.g, rhs), FMul("f32", lhs.b, rhs))

LinRGBColor_div(lhs, rhs) ==
    LinRGBColor_from(FDiv("f32", lhs.r, rhs), FDiv("f32", lhs.g, rhs), FDiv("f32", lhs.b, rhs))

\* a blend with the two ratios exchanged
blend_exchanged(this, other, ratio) ==
    LinRGBColor_add(LinRGBColor_mul(this, FSub("f32", Whole(1), ratio)),
                    LinRGBColor_mul(other, ratio))

\* self.blend(other, ratio): self * ratio + other * (1.0 - ratio)
blend(this, other, ratio) ==
    LinRGBColor_add(LinRGBColor_mul(this, ratio),
                    LinRGBColor_mul(other, FSub("f32", Whole(1), ratio)))

\* Alpha::<LinRGBColor, f32>::blend(self, bg)
Alpha_blend(fg, bg) == blend(fg.color, bg, fg.alpha)

\* #[derive(Default)] of the Alpha of color/alpha.rs
color_Alpha_default == [color |-> LinRGBColor_default, alpha |-> Whole(0), divisors |-> <<>>]

\* an alpha_blend that divides whatever the alpha
alpha_blend_unguarded(fg, bg) ==
    LET with(alpha) ==
            [color |-> LinRGBColor_div(
                           LinRGBColor_add(
                               LinRGBColor_mul(fg.color, fg.alpha),
                               LinRGBColor_mul(LinRGBColor_mul(bg.color, bg.alpha),
                                               FSub("f32", Whole(1), fg.alpha))),
                           alpha),
             alpha |-> alpha, divisors |-> <<alpha>>]
    IN  with(FAdd("f32", fg.alpha, FMul("f32", bg.alpha, FSub("f32", Whole(1), fg.alpha))))

\* Alpha::<LinRGBColor, f32>::alpha_blend(self, bg); divisors are the values
\* the call divided by
alpha_blend(fg, bg) ==
    LET with(alpha) ==
            IF Eq(alpha, Whole(0)) THEN color_Alpha_default
            ELSE [color |-> LinRGBColor_div(
                                LinRGBColor_add(
                                    LinRGBColor_mul(fg.color, fg.alpha),
                                    LinRGBColor_mul(LinRGBColor_mul(bg.color, bg.alpha),
                                                    FSub("f32", Whole(1), fg.alpha))),
                                alpha),
                  alpha |-> alpha, divisors |-> <<alpha>>]
    IN  with(FAdd("f32", fg.alpha, FMul("f32", bg.alpha, FSub("f32", Whole(1), fg.alpha))))

\* alpha.rs: Default for Alpha<RGBColor<T, S>, A>
Alpha_default(T, A) ==
    [color |-> RGBColor_new(T, ch_zero(T), ch_zero(T), ch_zero(T)), alpha |-> ch_max(A)]

(***************************************************************************)
(* Shades.  f32::powf is the platform's power function; the model holds    *)
(* its values at the bases the sampled channels lead to.                   *)
(***************************************************************************)
STD_GAMMA == Dy(5033165, 0 - 21)
SRGB_INV_CUTOFF == Dy(5429107, 0 - 27)
HUE_MARGIN == Whole(45)
BLACK_CUTOFF_LUMINANCE == Dy(5368709, 0 - 30)
GREYSCALE_SATURATION == Dy(13421773, 0 - 28)
WHITE_SATURATION == Dy(11744051, 0 - 25)
WHITE_LUMINANCE == Dy(13421773, 0 - 25)
GREY_SATURATION == Dy(7549747, 0 - 24)
GREY_LUMINANCE_MAX == Dy(13421773, 0 - 24)
GREY_LUMINANCE_MIN == Dy(16106127, 0 - 29)
BLACK_LUMINANCE == Dy(3019899, 0 - 26)
COLOR_HUES == <<[hue |-> Whole(60), color |-> "Yellow"], [hue |-> Whole(120), color |-> "Green"],
                [hue |-> Whole(180), color |-> "Cyan"], [hue |-> Whole(240), color |-> "Blue"],
                [hue |-> Whole(300), color |-> "Magenta"]>>

\* x.powf(n) for the exponents of the source, 2.4 and 1.0 / 2.4, which are
\* positive and no whole numbers: the cases the standard fixes for such an
\* exponent, and the values of the platform's function at the bases the
\* sampled channels lead to
powf(x, n) ==
    CASE x.k \in {"panic", "nan"} -> x
      [] x.k = "inf" -> Inf(FALSE)
      [] IsZero(x) -> Whole(0)
      [] x.k = "fin" /\ ~IsZero(x) /\ x.neg -> NaN
      [] x = Whole(1) -> Whole(1)
      [] x = Dy(8110313, 0 - 25) /\ n = STD_GAMMA -> Dy(2221623, 0 - 26)
      [] x = Dy(8825929, 0 - 24) /\ n = STD_GAMMA -> Dy(7182029, 0 - 25)
      [] x = Dy(10416187, 0 - 24) /\ n = STD_GAMMA -> Dy(5344329, 0 - 24)
      [] x = Dy(6798351, 0 - 23) /\ n = STD_GAMMA -> Dy(10130543, 0 - 24)

\* space::std_gamma_decode::<f32>(encoded)
std_gamma_decode(encoded) ==
    IF Le(encoded, SRGB_INV_CUTOFF) THEN FDiv("f32", encoded, Dy(6773801, 0 - 19))
    ELSE powf(FDiv("f32", FAdd("f32", encoded, Dy(7381975, 0 - 27)), Dy(8849981, 0 - 23)),
              STD_GAMMA)

\* RGBColor::<f32, SRGBSpace>::std_decode()
std_decode(c) ==
    RGBColor_normalize("f32", [ch \in RGBChannels |-> std_gamma_decode(c[ch])])

SRGB_CUTOFF == Dy(3361671, 0 - 30)

\* space::std_gamma_encode::<f32>(linear)
std_gamma_encode(linear) ==
    IF Le(linear, SRGB_CUTOFF) THEN FMul("f32", linear, Dy(6773801, 0 - 19))
    ELSE FSub("f32", FMul("f32", powf(linear, FDiv("f32", Whole(1), STD_GAMMA)),
                          Dy(8849981, 0 - 23)),
              Dy(7381975, 0 - 27))

\* RGBColor::<f32, LinearSpace>::std_encode()
std_encode(c) ==
    RGBColor_normalize("f32", [ch \in RGBChannels |-> std_gamma_encode(c[ch])])

\* RGBColor::<f32, LinearSpace>::relative_luminance()
relative_luminance(c) ==
    FAdd("f32", FAdd("f32", FMul("f32", Dy(891709, 0 - 22), c.r),
                            FMul("f32", Dy(11999065, 0 - 24), c.g)),
                FMul("f32", Dy(1211315, 0 - 24), c.b))

Shade(color, amount) == [color |-> color, amount |-> amount]

\* shades: the red shade, which lies around the hue 0 = 360
red_shade(h) ==
    IF Ge(h, FSub("f32", Whole(360), HUE_MARGIN)) \/ Le(h, FAdd("f32", Whole(0), HUE_MARGIN))
    THEN <<Shade("Red",
                 FSub("f32", Whole(1),
                      FDiv("f32", IF Le(h, FAdd("f32", Whole(0), HUE_MARGIN)) THEN h
                                  ELSE FSub("f32", h, Whole(360)),
                           HUE_MARGIN)))>>
    ELSE <<>>

\* shades: the shades of COLOR_HUES[i..]
RECURSIVE hue_shades(_, _)
hue_shades(h, i) ==
    IF i > Len(COLOR_HUES) THEN <<>>
    ELSE (IF Le(FAbs(FSub("f32", h, COLOR_HUES[i].hue)), HUE_MARGIN)
          THEN <<Shade(COLOR_HUES[i].color,
                       FSub("f32", Whole(1),
                            FDiv("f32", FAbs(FSub("f32", h, COLOR_HUES[i].hue)), HUE_MARGIN)))>>
          ELSE <<>>) \o hue_shades(h, i + 1)

\* shades: black, white and grey
grey_shades(s, lum) ==
    (IF Le(lum, BLACK_LUMINANCE) THEN <<Shade("Black", Whole(1))>>
     ELSE IF Ge(lum, WHITE_LUMINANCE) /\ Le(s, WHITE_SATURATION)
     THEN <<Shade("White", Whole(1))>>
     ELSE <<>>)
    \o (IF Le(s, GREY_SATURATION) /\ Le(lum, GREY_LUMINANCE_MAX) /\ Ge(lum, GREY_LUMINANCE_MIN)
        THEN <<Shade("Grey", Whole(1))>>
        ELSE <<>>)

\* shades: the list as pushed
pushed_shades(h, s, lum) ==
    (IF Gt(s, GREYSCALE_SATURATION) THEN red_shade(h) \o hue_shades(h, 1) ELSE <<>>)
    \o grey_shades(s, lum)

\* shades: sum, 0.0 and then += amount for every shade pushed
RECURSIVE sum_of(_)
sum_of(list) ==
    IF list = <<>> THEN Whole(0)
    ELSE FAdd("f32", sum_of(SubSeq(list, 1, Len(list) - 1)), list[Len(list)].amount)

\* a sort that leaves the list as it was pushed
sorted_as_pushed(list) == list

\* sort_unstable_by, the larger amount first; a list this short is sorted by
\* insertion, which leaves equal amounts in the order they were pushed
RECURSIVE sorted(_)
sorted(list) ==
    IF list = <<>> THEN <<>>
    ELSE LET insert(front, x) ==
                 LET k == Cardinality({i \in DOMAIN front : Ge(front[i].amount, x.amount)})
                 IN  SubSeq(front, 1, k) \o <<x>> \o SubSeq(front, k + 1, Len(front))
         IN  insert(sorted(SubSeq(list, 1, Len(list) - 1)), list[Len(list)])

\* shades: every amount divided by the sum
divided(list, sum) == [i \in DOMAIN list |-> Shade(list[i].color, FDiv("f32", list[i].amount, sum))]

\* shades: "sort and normalize"
sorted_and_divided(list) == divided(sorted(list), sum_of(list))

\* a classification that calls a dark colour grey
shades_dark_is_grey(h, s, lum) ==
    IF Lt(lum, BLACK_CUTOFF_LUMINANCE) THEN <<Shade("Grey", Whole(1))>>
    ELSE sorted_and_divided(pushed_shades(h, s, lum))

\* shades: the early return of a dark colour, or the list of its shades
shades_of(h, s, lum) ==
    IF Lt(lum, BLACK_CUTOFF_LUMINANCE) THEN <<Shade("Black", Whole(1))>>
    ELSE sorted_and_divided(pushed_shades(h, s, lum))

\* a call of shades that panicked returns no list
PanicShades == <<Shade("Panic", Panic)>>

\* shades: (h, s, _) = color.hsv::<Deg<f32>>().tuple(), before the luminance
\* is computed; a panic of hsv() is a panic of shades
shades_of_hsv(c, lum) == IF c = PanicHSV THEN PanicShades ELSE shades_of(c.h, c.s, lum)

\* shades(color)
shades(color) ==
    shades_of_hsv(RGBColor_hsv("Deg<f32>", "f32", color), relative_luminance(std_decode(color)))

\* color.rs: SRGBColor::new(r, g, b), every channel through clamp(x, 0.0, 1.0)
color_SRGBColor_new(r, g, b) ==
    LET clamped(c) == [ch \in RGBChannels |-> util_clamp(c[ch], Whole(0), Whole(1))]
    IN  clamped([r |-> r, g |-> g, b |-> b])

\* color.rs: SRGBColor::hsv, HSVColor::new(hue, saturation, value)
color_hsv_of_delta(r, g, b, max, delta) ==
    color_HSVColor_new(hsv_hue(r, g, b, max, delta), hsv_saturation(max, delta), max)

\* color.rs: <SRGBColor as Color>::hsv(), on the f32 channels as they are
color_hsv_of_max_min(c, max, min) ==
    color_hsv_of_delta(c.r, c.g, c.b, max, FSub("f32", max, min))

color_SRGBColor_hsv(c) ==
    color_hsv_of_max_min(c, FMax(FMax(c.r, c.g), c.b), FMin(FMin(c.r, c.g), c.b))

\* color.rs: <SRGBColor as Color>::lin_rgb()
color_SRGBColor_lin_rgb(c) ==
    [ch \in RGBChannels |-> util_clamp(std_gamma_decode(c[ch]), Whole(0), Whole(1))]

\* color.rs: Color::shades(&self) of an SRGBColor
Color_shades(c) ==
    shades_of_hsv(color_SRGBColor_hsv(c), relative_luminance(color_SRGBColor_lin_rgb(c)))

(***************************************************************************)
(* Hex codes.  A string is a sequence of one-character strings; the        *)
(* strings of the model are ASCII, so bytes and characters coincide.       *)
(***************************************************************************)
UpperCase == <<"A", "B", "C", "D", "E", "F", "G", "H", "I", "J", "K", "L", "M",
               "N", "O", "P", "Q", "R", "S", "T", "U", "V", "W", "X", "Y", "Z">>
LowerCase == <<"a", "b", "c", "d", "e", "f", "g", "h", "i", "j", "k", "l", "m",
               "n", "o", "p", "q", "r", "s", "t", "u", "v", "w", "x", "y", "z">>
LowerDigits == <<"0", "1", "2", "3", "4", "5", "6", "7", "8", "9",
                 "a", "b", "c", "d", "e", "f">>
UpperDigits == <<"0", "1", "2", "3", "4", "5", "6", "7", "8", "9",
                 "A", "B", "C", "D", "E", "F">>

\* u8::make_ascii_lowercase
make_ascii_lowercase(ch) ==
    IF \E i \in DOMAIN UpperCase : UpperCase[i] = ch
    THEN LowerCase[CHOOSE i \in DOMAIN UpperCase : UpperCase[i] = ch]
    ELSE ch

\* char::to_digit(16); -1 stands for None
to_digit(ch) ==
    IF \E i \in DOMAIN LowerDigits : LowerDigits[i] = make_ascii_lowercase(ch)
    THEN (CHOOSE i \in DOMAIN LowerDigits : LowerDigits[i] = make_ascii_lowercase(ch)) - 1
    ELSE 0 - 1

RECURSIVE radix16(_)
radix16(digits) ==
    IF digits = <<>> THEN 0
    ELSE 16 * radix16(SubSeq(digits, 1, Len(digits) - 1)) + to_digit(digits[Len(digits)])

\* u8::from_str_radix(src, 16): a leading '+' is a sign, a '-' is no digit
\* of an unsigned type
u8_from_str_radix(src) ==
    LET parse(digits) ==
            IF digits = <<>> \/ \E i \in DOMAIN digits : to_digit(digits[i]) < 0
            THEN [ok |-> FALSE, v |-> 0]
            ELSE IF radix16(digits) > 255 THEN [ok |-> FALSE, v |-> 0]
            ELSE [ok |-> TRUE, v |-> radix16(digits)]
    IN  IF src = <<>> THEN [ok |-> FALSE, v |-> 0]
        ELSE IF src[1] = "+" THEN parse(Tail(src))
        ELSE parse(src)

lowercased(str) == [i \in DOMAIN str |-> make_ascii_lowercase(str[i])]

\* pairs that repeat the first three characters whatever the length
hex_pairs_short(h) == << <<h[1], h[1]>>, <<h[2], h[2]>>, <<h[3], h[3]>> >>

\* the three two-character strings from_hex and from_hex_unchecked parse
hex_pairs(h) ==
    IF Len(h) >= 6 THEN << <<h[1], h[2]>>, <<h[3], h[4]>>, <<h[5], h[6]>> >>
    ELSE << <<h[1], h[1]>>, <<h[2], h[2]>>, <<h[3], h[3]>> >>

hex_color(p) ==
    IF \E i \in 1..3 : ~u8_from_str_radix(p[i]).ok THEN [k |-> "none"]
    ELSE [k |-> "some",
          c |-> RGBColor_new("u8", Whole(u8_from_str_radix(p[1]).v),
                                   Whole(u8_from_str_radix(p[2]).v),
                                   Whole(u8_from_str_radix(p[3]).v))]

\* RGBColor::<u8, S>::from_hex(hex_str)
from_hex(hex_str) ==
    IF Len(hex_str) < 3 THEN [k |-> "none"]
    ELSE hex_color(hex_pairs(lowercased(hex_str)))

\* RGBColor::<u8, S>::from_hex_unchecked(hex_str): an index out of the
\* string and the unwrap of a failed parse panic
from_hex_unchecked(hex_str) ==
    IF Len(hex_str) < 3 THEN [k |-> "panic"]
    ELSE IF hex_color(hex_pairs(lowercased(hex_str))).k = "none" THEN [k |-> "panic"]
    ELSE hex_color(hex_pairs(lowercased(hex_str)))

\* the value of a u8 channel as a natural number
u8_to_nat(x) == IF x.m = <<>> THEN 0 ELSE x.m[1] * Pow2(x.e)

\* format!("{:X}", color)
UpperHex(c) ==
    LET two(n) == <<UpperDigits[(n \div 16) + 1], UpperDigits[(n % 16) + 1]>>
    IN  two(u8_to_nat(c.r)) \o two(u8_to_nat(c.g)) \o two(u8_to_nat(c.b))

(***************************************************************************)
(* rgb.rs: the operators of RGBColor<T, LinearSpace>.  Each applies the    *)
(* operator of T to the channels and makes a colour of the three results   *)
(* with From<(T, T, T)>, which is RGBColor::new.  color/linrgb.rs: the     *)
(* operators of LinRGB48Color, whose From<(u16, u16, u16)> keeps the       *)
(* values it is given.  An operator of T that panics leaves no colour.     *)
(***************************************************************************)
RGBFuns == {"add", "sub", "mul", "div"}

\* the operator of the channel type T: that of std::ops for a primitive
\* type, the wrapping one of channel/angle.rs for an angle type
channel_op(T, fun, a, b, checks) ==
    IF T \in AngleTypes THEN angle_op(T, fun, a, b, checks) ELSE prim_op(T, fun, a, b, checks)

\* the three results of the operator of T, before a colour is made of them
rgb_op_channels(T, fun, lhs, rhs, checks) ==
    [ch \in RGBChannels |-> channel_op(T, fun, lhs[ch], rhs[ch], checks)]

\* impl Add, Sub, Mul, Div for RGBColor<T, LinearSpace>
RGBColor_op(T, fun, lhs, rhs, checks) ==
    rgb_into(T, rgb_op_channels(T, fun, lhs, rhs, checks))

\* a colour with the scalar in each channel
splat(x) == [ch \in RGBChannels |-> x]

\* impl Mul<T>, Div<T> for RGBColor<T, LinearSpace>
RGBColor_op_scalar(T, fun, lhs, rhs, checks) == RGBColor_op(T, fun, lhs, splat(rhs), checks)

\* LinRGB48Color::new(r, g, b)
LinRGB48Color_new(t) ==
    IF \E ch \in RGBChannels : IsPanic(t[ch]) THEN PanicRGB ELSE t

\* impl Add, Sub for LinRGB48Color; impl Mul<u16>, Div<u16> for LinRGB48Color
LinRGB48Color_op(fun, lhs, rhs, checks) ==
    LinRGB48Color_new(rgb_op_channels("u16", fun, lhs, rhs, checks))

(***************************************************************************)
(* base.rs: BaseColor, and the colours made from it (rgb.rs, hsv.rs)       *)
(***************************************************************************)
BaseColors ==
    {"Black", "Grey", "White", "Red", "Yellow", "Green", "Cyan", "Blue", "Magenta"}

\* the table of BaseColor::srgb24 and of From<BaseColor> for RGBColor, on
\* the low, middle and high channel values c0, cm and c1
base_rgb(b, c0, cm, c1) ==
    LET f(r, g, bl) == [r |-> r, g |-> g, b |-> bl]
    IN  CASE b = "Black" -> f(c0, c0, c0)
          [] b = "Grey" -> f(cm, cm, cm)
          [] b = "White" -> f(c1, c1, c1)
          [] b = "Red" -> f(c1, c0, c0)
          [] b = "Yellow" -> f(c1, c1, c0)
          [] b = "Green" -> f(c0, c1, c0)
          [] b = "Cyan" -> f(c0, c1, c1)
          [] b = "Blue" -> f(c0, c0, c1)
          [] b = "Magenta" -> f(c1, c0, c1)

\* the table of From<BaseColor> for HSVColor
base_hsv(b) ==
    LET f(h, s, v) == [h |-> h, s |-> s, v |-> v]
    IN  CASE b = "Black" -> f(Whole(0), Whole(0), Whole(0))
          [] b = "Grey" -> f(Whole(0), Whole(0), Dy(1, 0 - 1))
          [] b = "White" -> f(Whole(0), Whole(0), Whole(1))
          [] b = "Red" -> f(Whole(0), Whole(1), Whole(1))
          [] b = "Yellow" -> f(Whole(60), Whole(1), Whole(1))
          [] b = "Green" -> f(Whole(120), Whole(1), Whole(1))
          [] b = "Cyan" -> f(Whole(180), Whole(1), Whole(1))
          [] b = "Blue" -> f(Whole(240), Whole(1), Whole(1))
          [] b = "Magenta" -> f(Whole(300), Whole(1), Whole(1))

\* BaseColor::srgb24()
BaseColor_srgb24(b) == RGBColor_normalize("u8", base_rgb(b, Whole(0), Whole(128), Whole(255)))

\* RGBColor::<T, SRGBSpace>::from(base_color)
RGBColor_from_base(T, b) ==
    RGBColor_normalize(T, base_rgb(b, ch_zero(T), ch_mid(T), ch_max(T)))

\* HSVColor::<H, T, SRGBSpace>::from(base_color):
\* Self::new(Deg(h).conv::<H>(), s.conv(), v.conv())
HSVColor_from_base(H, T, b) == hsv_of_f32(H, T, base_hsv(b))

(***************************************************************************)
(* palette.rs and main.rs: Palette::parse.  A line is a sequence of        *)
(* characters.  The two regular expressions are modelled by what they      *)
(* capture: [ok |-> TRUE, g |-> the groups] or NoCapture.                  *)
(***************************************************************************)
NoCapture == [ok |-> FALSE, g |-> <<>>]

\* the characters \s matches, which are those of the Unicode property
\* White_Space: the space, U+0009 to U+000D, U+0085, U+00A0 and U+1680, and
\* U+2000 to U+200A, U+2028, U+2029, U+202F, U+205F and U+3000, which no
\* string of the module can hold, so that no line of the model has them
Whitespace == {" ", "\t", "\n", "", "\f", "\r", "", " ", " "}

\* what BufRead::lines yields for a line that is not UTF-8: the Err of
\* io::ErrorKind::InvalidData, which is no sequence of characters
io_Error == <<"stream did not contain valid UTF-8">>

\* the index of the first ch in line, 0 when there is none
first_index(line, ch) ==
    IF \E i \in DOMAIN line : line[i] = ch
    THEN CHOOSE i \in DOMAIN line : line[i] = ch /\ \A j \in 1..(i - 1) : line[j] # ch
    ELSE 0

\* ^(.*?): captures the shortest prefix that a colon follows; the dot
\* matches no line feed
SETNAME_RE_captures(line) ==
    IF first_index(line, ":") = 0 THEN NoCapture
    ELSE IF \E i \in 1..(first_index(line, ":") - 1) : line[i] = "\n" THEN NoCapture
    ELSE [ok |-> TRUE, g |-> <<SubSeq(line, 1, first_index(line, ":") - 1)>>]

\* \s*([^#]+?)\s* on the characters between the star and the first #: the
\* group is what is left without the whitespace at both ends, and the last
\* character when all of them are whitespace
colorline_name(between) ==
    IF \A i \in DOMAIN between : between[i] \in Whitespace
    THEN <<between[Len(between)]>>
    ELSE SubSeq(between,
                CHOOSE i \in DOMAIN between :
                    between[i] \notin Whitespace
                    /\ \A j \in 1..(i - 1) : between[j] \in Whitespace,
                CHOOSE i \in DOMAIN between :
                    between[i] \notin Whitespace
                    /\ \A j \in (i + 1)..Len(between) : between[j] \in Whitespace)

\* the match of COLORLINE_RE on a line whose first # is at p
colorline_at(line, p) ==
    IF \/ p < 3
       \/ Len(line) < p + 6
       \/ \E i \in (p + 1)..(p + 6) : to_digit(line[i]) < 0
    THEN NoCapture
    ELSE [ok |-> TRUE,
          g |-> <<colorline_name(SubSeq(line, 2, p - 1)), SubSeq(line, p + 1, p + 6)>>]

\* ^\*\s*([^#]+?)\s*#([0-9a-fA-F]{6})
COLORLINE_RE_captures(line) ==
    IF line = <<>> THEN NoCapture
    ELSE IF line[1] # "*" THEN NoCapture
    ELSE colorline_at(line, first_index(line, "#"))

\* colors.insert(rgb, colname) on the map from colours to names
map_insert(colors, rgb, colname) ==
    {e \in colors : e.rgb # rgb} \cup {[rgb |-> rgb, name |-> colname]}

\* palette.rs: what a colour line does, rgb and colname being its captures
palette_color_line(p, rgb, colname) ==
    IF p.colorsets = <<>> THEN [p EXCEPT !.res = "Err", !.err = colname]
    ELSE [p EXCEPT !.colorsets[Len(p.colorsets)].colors = Append(@, rgb),
                   !.colors = map_insert(@, rgb, colname)]

\* colorsets.entry(name).or_insert(Vec::new()).push(rgb); the HashMap is a
\* function from the names to the lists, which has no order
entry_push(colorsets, name, rgb) ==
    [n \in DOMAIN colorsets \cup {name} |->
        IF n \in DOMAIN colorsets
        THEN (IF n = name THEN Append(colorsets[n], rgb) ELSE colorsets[n])
        ELSE <<rgb>>]

\* main.rs: what a colour line does
main_color_line(p, rgb, colname) ==
    IF p.cur = <<>> THEN [p EXCEPT !.res = "Err", !.err = colname]
    ELSE [p EXCEPT !.colorsets = entry_push(@, p.cur, rgb),
                   !.colors = map_insert(@, rgb, colname)]

\* what a set-name line does: palette.rs pushes an empty set, main.rs keeps
\* the name
setname_line(p, name) ==
    IF p.ver = "palette.rs"
    THEN [p EXCEPT !.colorsets = Append(@, [name |-> name, colors |-> <<>>])]
    ELSE [p EXCEPT !.cur = name]

color_line(p, rgb, colname) ==
    IF p.ver = "palette.rs" THEN palette_color_line(p, rgb, colname)
    ELSE main_color_line(p, rgb, colname)

\* the body of the loop of Palette::parse, on one line: `let line = line?`
\* returns the error of a line that could not be read
parse_line(p, line) ==
    IF line = io_Error THEN [p EXCEPT !.res = "Err(IO)", !.err = line]
    ELSE IF SETNAME_RE_captures(line).ok THEN setname_line(p, SETNAME_RE_captures(line).g[1])
    ELSE IF COLORLINE_RE_captures(line).ok
    THEN color_line(p, from_hex_unchecked(COLORLINE_RE_captures(line).g[2]).c,
                    lowercased(COLORLINE_RE_captures(line).g[1]))
    ELSE p

(***************************************************************************)
(* color/hsv.rs: HSVColor<S>::rgb() of the f32-only colour, whose hue is a *)
(* Deg<f32> and whose result is made by From<(f32, f32, f32)>, which       *)
(* stores the channels as they are.                                        *)
(***************************************************************************)
\* (r+min, g+min, b+min).into()
color_rgb_of_sector(t, min) ==
    IF t = PanicRGB THEN PanicRGB ELSE [ch \in RGBChannels |-> FAdd("f32", t[ch], min)]

\* x = c * (1.0 - (h % 2.0 - 1.0).abs()), min = v - c
color_rgb_of_hue(h, v, c) ==
    color_rgb_of_sector(rgb_sector(as_u8(h), c,
                                   FMul("f32", c,
                                        FSub("f32", Whole(1),
                                             FAbs(FSub("f32", FRem(h, Whole(2)), Whole(1)))))),
                        FSub("f32", v, c))

\* HSVColor::<S>::rgb()
color_HSVColor_rgb(c) ==
    color_rgb_of_hue(FDiv("f32", c.h, Whole(60)), c.v, FMul("f32", c.s, c.v))

(***************************************************************************)
(* iter.rs: IntoIter<T>, the iterator over the channels of a colour        *)
(***************************************************************************)
\* mem::zeroed() for a primitive channel type
mem_zeroed == Whole(0)

\* IntoIter::from4(x, y, z, w)
IntoIter_from4(x, y, z, w) == [array |-> <<x, y, z, w>>, idx |-> 0]

\* a from3 that fills the array from its first slot
from3_at_zero(x, y, z) == [array |-> <<x, y, z, mem_zeroed>>, idx |-> 0]

\* IntoIter::from3(x, y, z)
IntoIter_from3(x, y, z) == [array |-> <<mem_zeroed, x, y, z>>, idx |-> 1]

Some(x) == [k |-> "Some", v |-> x]
None == [k |-> "None", v |-> Whole(0)]

\* IntoIter::next(&mut self): the iterator after the call and what it returned
IntoIter_next(self) ==
    IF self.idx = 4 THEN [self |-> self, ret |-> None]
    ELSE [self |-> [self EXCEPT !.idx = (self.idx + 1) % 256],
          ret |-> Some(self.array[self.idx + 1])]

\* <RGBColor<T, S> as IntoIterator>::into_iter
RGBColor_into_iter(c) == IntoIter_from3(c.r, c.g, c.b)

\* <Alpha<RGBColor<T, S>, T> as IntoIterator>::into_iter
Alpha_into_iter(a) == IntoIter_from4(a.color.r, a.color.g, a.color.b, a.alpha)

(***************************************************************************)
(* The state.  The library is a set of value types; a state holds the      *)
(* values a client has made and how it made them.                          *)
(*   chan  a channel value: the source value and its type, the value it    *)
(*         has been converted to and the types it passed through           *)
(*   ang   an angle: its type, its inner value, the last operation and     *)
(*         the operands of that operation                                  *)
(*   col   an RGB colour, with or without alpha, and the arguments it was  *)
(*         constructed from                                                *)
(*   hsv   an HSV colour and the arguments it was constructed from         *)
(*   call  a call of a function of the library: its name, its arguments,   *)
(*         what it returned and the text the result was formatted to       *)
(***************************************************************************)
VARIABLES chan, ang, col, hsv, call, iter, pal

vars == <<chan, ang, col, hsv, call, iter, pal>>

NoChan == [src_ty |-> "none", src |-> Whole(0), via |-> "none", ty |-> "none",
           v |-> Whole(0), hops |-> 0]
NoAng == [ty |-> "none", v |-> Whole(0), op |-> "none", fun |-> "none",
          lhs |-> Whole(0), rhs |-> Whole(0), checks |-> TRUE, n |-> 0]
NoCol == [kind |-> "none", T |-> "none", A |-> "none",
          c |-> [r |-> Whole(0), g |-> Whole(0), b |-> Whole(0)], alpha |-> Whole(0),
          args |-> <<>>, ops |-> <<>>]
NoHSV == [kind |-> "none", H |-> "none", T |-> "none",
          c |-> [h |-> Whole(0), s |-> Whole(0), v |-> Whole(0)],
          args |-> <<>>, ops |-> <<>>]
NoCall == [fn |-> "none", args |-> <<>>, ret |-> [k |-> "none"], out |-> <<>>]
\*   iter  an iterator over the channels of col: its array, its index and
\*         what the calls of next() have returned, oldest first
\*   pal   a run of Palette::parse: the file of palette.rs or main.rs it is
\*         the parse of, the lines of the input and how many of them have
\*         been read, the current set name (main.rs), the colour sets and
\*         the colours recorded so far, the result and the name in its error
NoIter == [kind |-> "none", array |-> <<>>, idx |-> 0, out |-> <<>>]
NoPal == [ver |-> "none", lines |-> <<>>, read |-> 0, cur |-> <<>>,
          colorsets |-> <<>>, colors |-> {}, res |-> "none", err |-> <<>>]

(***************************************************************************)
(* Channel conversions: a value of a channel type is converted to another  *)
(* channel type, and then back to the type it came from.                   *)
(***************************************************************************)
\* the rows of 257 values of u16 taken at each end of its range
U16Rows == 4
\* the values taken next to 0, the middle and the maximum of u32 and u64
WideWidth == 2
\* the f32 inputs inside the range are the multiples of 1 / FracSteps
FracSteps == 20

FracGrid(ty) == {FDiv(ty, Whole(k), Whole(FracSteps)) : k \in 0..FracSteps}

OutOfRangeFloats ==
    {Dy(-1, -1), Dy(3, -1), Whole(2), Whole(-10), Dy(1, -10), Inf(FALSE), Inf(TRUE), NaN}

WideSamples(ty) ==
    {Whole(k) : k \in 0..WideWidth}
    \cup {ExactAdd(max_value(ty), Whole(0 - k)) : k \in 0..WideWidth}
    \cup {ExactAdd(TwoTo(IntBits(ty) - 1), Whole(k)) : k \in (0 - WideWidth)..WideWidth}

ChannelSamples(ty) ==
    CASE ty = "u8" -> {Whole(k) : k \in 0..255}
      [] ty = "u16" ->
            {Whole(257 * k + d) : k \in (0..U16Rows) \cup ((254 - U16Rows)..254),
                                  d \in {0, 1, 128, 129, 256}}
            \cup {Whole(65535)}
      [] ty \in {"u32", "u64"} -> WideSamples(ty)
      [] ty \in {"f32", "f64"} -> FracGrid(ty) \cup OutOfRangeFloats

ConvSources == {"u8", "u16", "u32", "u64", "f32", "f64"}
ConvTargets == ConvSources \cup {"Deg<f32>", "Rad"}

InitConv ==
    /\ \E S \in ConvSources : \E x \in ChannelSamples(S) :
          chan = [src_ty |-> S, src |-> x, via |-> "none", ty |-> S, v |-> x, hops |-> 0]
    /\ ang = NoAng
    /\ col = NoCol
    /\ hsv = NoHSV
    /\ iter = NoIter
    /\ pal = NoPal
    /\ call = NoCall

\* let t: T = x.conv();
Conv(T) ==
    /\ chan.hops = 0
    /\ chan' = [chan EXCEPT !.via = T, !.ty = T, !.v = conv(chan.ty, T, chan.v), !.hops = 1]
    /\ UNCHANGED <<ang, col, hsv, call, iter, pal>>

\* let back: S = t.conv();  for an angle t the Channel methods of an angle
\* type are the ones of its inner value with the angle's range
ConvBack ==
    /\ chan.hops = 1
    /\ ~IsPanic(chan.v)
    /\ chan' = [chan EXCEPT !.ty = chan.src_ty,
                            !.v = conv(chan.ty, chan.src_ty, chan.v), !.hops = 2]
    /\ UNCHANGED <<ang, col, hsv, call, iter, pal>>

NextConv == (\E T \in ConvTargets : Conv(T)) \/ ConvBack

SpecConv == InitConv /\ [][NextConv]_vars

(***************************************************************************)
(* Angles: an angle that starts in range is replaced by a wrapped inner    *)
(* value, combined with an in-range angle by a binary operator, or changed *)
(* in place by a compound assignment.  checks tells whether the build      *)
(* checks integer overflow.                                                *)
(***************************************************************************)
\* the number of operations applied to one angle
MaxOps == 2

\* angles within [zero_angle, full_angle): the start values and operands
AngleSamples(ty) ==
    CASE ty \in {"Deg<i16>", "Deg<i32>"} -> {Whole(0), Whole(1), Whole(200), Whole(359)}
      [] ty = "Deg<f32>" -> {Whole(0), Dy(1, -20), Dy(181, -1), Whole(359)}
      [] ty = "Rad" -> {Whole(0), Dy(1, -20), Whole(3), Dy(25, -2)}
      [] ty = "Rev<f32>" -> {Whole(0), Dy(1, -25), Dy(1, -1), Dy(7, -3)}
      [] ty \in IntRevTypes -> {Whole(0), Whole(1), Whole(200), ch_mid(Inner(ty))}

\* inner values of any size and sign, to be wrapped
InnerSamples(ty) ==
    CASE ty \in {"Deg<i16>", "Deg<i32>"} ->
            {Whole(-725), Whole(-360), Whole(-1), Whole(360), Whole(361),
             max_value(ty), min_value(ty)}
      [] ty \in {"Deg<f32>", "Rad", "Rev<f32>"} ->
            {Dy(-1, -20), Dy(-1, -30), Dy(-181, -1), Whole(-725), Dy(801, -1),
             TwoTo(40), full_angle(ty)}
      [] ty \in IntRevTypes -> {Whole(0), Whole(1), full_angle(ty)}

InitAngle ==
    /\ \E ty \in AngleTypes : \E a \in AngleSamples(ty) : \E checks \in BOOLEAN :
          ang = [ty |-> ty, v |-> a, op |-> "none", fun |-> "none", lhs |-> a, rhs |-> a,
                 checks |-> checks, n |-> 0]
    /\ chan = NoChan
    /\ col = NoCol
    /\ hsv = NoHSV
    /\ iter = NoIter
    /\ pal = NoPal
    /\ call = NoCall

\* Self(a).wrap()
AngleWrap(a) ==
    /\ ang.n < MaxOps
    /\ ang' = [ang EXCEPT !.v = wrap(ang.ty, a), !.op = "wrap", !.fun = "none",
                          !.lhs = a, !.rhs = a, !.n = ang.n + 1]
    /\ UNCHANGED <<chan, col, hsv, call, iter, pal>>

\* self + rhs, self - rhs, self * rhs, self / rhs, self % rhs
AngleOp(fun, rhs) ==
    /\ ang.n < MaxOps
    /\ ~IsPanic(ang.v)
    /\ ang' = [ang EXCEPT !.v = angle_op(ang.ty, fun, ang.v, rhs, ang.checks),
                          !.op = "binary", !.fun = fun, !.lhs = ang.v, !.rhs = rhs,
                          !.n = ang.n + 1]
    /\ UNCHANGED <<chan, col, hsv, call, iter, pal>>

\* self += rhs, self -= rhs, self *= rhs, self /= rhs, self %= rhs
AngleOpAssign(fun, rhs) ==
    /\ ang.n < MaxOps
    /\ ~IsPanic(ang.v)
    /\ ang' = [ang EXCEPT !.v = angle_op_assign(ang.ty, fun, ang.v, rhs, ang.checks),
                          !.op = "assign", !.fun = fun, !.lhs = ang.v, !.rhs = rhs,
                          !.n = ang.n + 1]
    /\ UNCHANGED <<chan, col, hsv, call, iter, pal>>

NextAngle ==
    \/ \E a \in InnerSamples(ang.ty) \cup AngleSamples(ang.ty) : AngleWrap(a)
    \/ \E fun \in OpFuns : \E rhs \in AngleSamples(ang.ty) : AngleOp(fun, rhs)
    \/ \E fun \in OpFuns : \E rhs \in AngleSamples(ang.ty) : AngleOpAssign(fun, rhs)

SpecAngle == InitAngle /\ [][NextAngle]_vars

(***************************************************************************)
(* RGB colours: a colour is made by RGBColor::new or, with an alpha        *)
(* channel, by Alpha::new, and then normalized.                            *)
(***************************************************************************)
\* the number of times a colour is normalized after its construction
MaxNormalize == 1

NegZero == Fin(TRUE, <<>>, 0)

ColorSamples(ty) ==
    CASE ty = "u8" -> {Whole(0), Whole(128), Whole(255)}
      [] ty = "f32" ->
            {Inf(TRUE), Whole(-10), Whole(0), Dy(1, -1), Whole(1), Whole(2), Inf(FALSE), NaN}

ColorTypes == {"u8", "f32"}

InitRGB ==
    /\ col = NoCol
    /\ chan = NoChan
    /\ ang = NoAng
    /\ hsv = NoHSV
    /\ iter = NoIter
    /\ pal = NoPal
    /\ call = NoCall

\* RGBColor::<T, S>::new(r, g, b)
NewRGB(T, r, g, b) ==
    /\ col.kind = "none"
    /\ col' = [kind |-> "rgb", T |-> T, A |-> "none", c |-> RGBColor_new(T, r, g, b),
               alpha |-> Whole(0), args |-> <<r, g, b>>, ops |-> <<"new">>]
    /\ UNCHANGED <<chan, ang, hsv, call, iter, pal>>

\* Alpha::<RGBColor<T, S>, A>::new((r, g, b), alpha)
NewAlpha(T, A, r, g, b, alpha) ==
    /\ col.kind = "none"
    /\ LET a == Alpha_new(T, A, <<r, g, b>>, alpha)
       IN  col' = [kind |-> "rgba", T |-> T, A |-> A, c |-> a.color, alpha |-> a.alpha,
                   args |-> <<r, g, b, alpha>>, ops |-> <<"new">>]
    /\ UNCHANGED <<chan, ang, hsv, call, iter, pal>>

\* color.normalize()
NormalizeRGB ==
    /\ col.kind # "none"
    /\ Len(col.ops) <= MaxNormalize
    /\ IF col.kind = "rgb"
       THEN col' = [col EXCEPT !.c = RGBColor_normalize(col.T, col.c),
                               !.ops = Append(col.ops, "normalize")]
       ELSE LET a == Alpha_normalize(col.T, col.A, [color |-> col.c, alpha |-> col.alpha])
            IN  col' = [col EXCEPT !.c = a.color, !.alpha = a.alpha,
                                   !.ops = Append(col.ops, "normalize")]
    /\ UNCHANGED <<chan, ang, hsv, call, iter, pal>>

\* color.is_normal()
col_is_normal ==
    IF col.kind = "rgb" THEN RGBColor_is_normal(col.T, col.c)
    ELSE Alpha_is_normal(col.T, col.A, [color |-> col.c, alpha |-> col.alpha])

NextRGB ==
    \/ \E T \in ColorTypes : \E r, g, b \in ColorSamples(T) : NewRGB(T, r, g, b)
    \/ \E T \in ColorTypes : \E r, g, b \in ColorSamples(T) :
          \E alpha \in ColorSamples("f32") : NewAlpha(T, "f32", r, g, b, alpha)
    \/ NormalizeRGB

SpecRGB == InitRGB /\ [][NextRGB]_vars

(***************************************************************************)
(* HSV colours: a colour is made by HSVColor::new and then normalized.     *)
(***************************************************************************)
HueSamples(H) ==
    CASE H = "Deg<f32>" ->
            {Whole(-90), Whole(0), Whole(45), Whole(60), Whole(360), Whole(400), NaN}
      [] H = "Deg<i16>" -> {Whole(-90), Whole(0), Whole(60), Whole(360), Whole(400)}

HSVSamples(T) ==
    CASE T = "f32" ->
            {Whole(-5), NegZero, Whole(0), Dy(1, -2), Dy(1, -1), Whole(1), Whole(2), NaN}
      [] T = "u8" -> {Whole(0), Whole(64), Whole(255)}

HSVTypes == {<<"Deg<f32>", "f32">>, <<"Deg<i16>", "u8">>}

MaxAssign == 1

InitHSV ==
    /\ hsv = NoHSV
    /\ iter = NoIter
    /\ pal = NoPal
    /\ chan = NoChan
    /\ ang = NoAng
    /\ col = NoCol
    /\ call = NoCall

\* HSVColor::<H, T, S>::new(h, s, v)
NewHSV(H, T, h, s, v) ==
    /\ hsv.kind = "none"
    /\ hsv' = [kind |-> "hsv", H |-> H, T |-> T, c |-> HSVColor_new(H, T, h, s, v),
               args |-> <<h, s, v>>, ops |-> <<"new">>]
    /\ UNCHANGED <<chan, ang, col, call, iter, pal>>

\* color.rs: HSVColor::new(h, s, v) of the f32-only colour
NewColorHSV(h, s, v) ==
    /\ hsv.kind = "none"
    /\ hsv' = [kind |-> "color_hsv", H |-> "f32", T |-> "f32",
               c |-> color_HSVColor_new(h, s, v),
               args |-> <<h, s, v>>, ops |-> <<"new">>]
    /\ UNCHANGED <<chan, ang, col, call, iter, pal>>

Count(ops, name) == Cardinality({i \in DOMAIN ops : ops[i] = name})

\* color.h = x, color.s = x or color.v = x: the channels are public fields
AssignHSV(ty, field, x) ==
    /\ hsv.kind = "hsv"
    /\ hsv.H = ty[1] /\ hsv.T = ty[2]
    /\ Count(hsv.ops, "assign") < MaxAssign
    /\ hsv' = [hsv EXCEPT !.c = [hsv.c EXCEPT ![field] = x],
                          !.ops = Append(hsv.ops, "assign")]
    /\ UNCHANGED <<chan, ang, col, call, iter, pal>>

\* color.normalize()
NormalizeHSV ==
    /\ hsv.kind = "hsv"
    /\ Count(hsv.ops, "normalize") < MaxNormalize
    /\ hsv' = [hsv EXCEPT !.c = HSVColor_normalize(hsv.H, hsv.T, hsv.c),
                          !.ops = Append(hsv.ops, "normalize")]
    /\ UNCHANGED <<chan, ang, col, call, iter, pal>>

NextHSV ==
    \/ \E ty \in HSVTypes : \E h \in HueSamples(ty[1]) : \E s, v \in HSVSamples(ty[2]) :
          NewHSV(ty[1], ty[2], h, s, v)
    \/ \E h \in HueSamples("Deg<f32>") : \E s, v \in HSVSamples("f32") :
          NewColorHSV(h, s, v)
    \/ \E ty \in HSVTypes : \E x \in HueSamples(ty[1]) : AssignHSV(ty, "h", x)
    \/ \E ty \in HSVTypes : \E f \in {"s", "v"} : \E x \in HSVSamples(ty[2]) :
          AssignHSV(ty, f, x)
    \/ NormalizeHSV

SpecHSV == InitHSV /\ [][NextHSV]_vars

(***************************************************************************)
(* Hex codes: a string is parsed by from_hex or from_hex_unchecked and the *)
(* colour is formatted as upper hex.                                       *)
(***************************************************************************)
MaxHexLen == 6

HexChars == {"1", "a", "F", "+", "g"}

HexStrings == UNION {[1..n -> HexChars] : n \in 0..MaxHexLen}

InitHex ==
    /\ \E str \in HexStrings : call = [NoCall EXCEPT !.args = <<str>>]
    /\ chan = NoChan
    /\ ang = NoAng
    /\ col = NoCol
    /\ hsv = NoHSV
    /\ iter = NoIter
    /\ pal = NoPal

\* SRGB24Color::from_hex(&hex_str)
FromHex ==
    /\ call.fn = "none"
    /\ call' = [call EXCEPT !.fn = "from_hex", !.ret = from_hex(call.args[1])]
    /\ UNCHANGED <<chan, ang, col, hsv, iter, pal>>

\* unsafe { SRGB24Color::from_hex_unchecked(hex_str) }
FromHexUnchecked ==
    /\ call.fn = "none"
    /\ call' = [call EXCEPT !.fn = "from_hex_unchecked",
                            !.ret = from_hex_unchecked(call.args[1])]
    /\ UNCHANGED <<chan, ang, col, hsv, iter, pal>>

\* format!("{:X}", color)
FormatUpperHex ==
    /\ call.fn \in {"from_hex", "from_hex_unchecked"}
    /\ call.ret.k = "some"
    /\ call.out = <<>>
    /\ call' = [call EXCEPT !.out = UpperHex(call.ret.c)]
    /\ UNCHANGED <<chan, ang, col, hsv, iter, pal>>

NextHex ==
    \/ FromHex
    \/ FromHexUnchecked
    \/ FormatUpperHex

SpecHex == InitHex /\ [][NextHex]_vars

(***************************************************************************)
(* Blending: one call of blend, of Alpha::blend, of alpha_blend or of      *)
(* Alpha::default.                                                         *)
(***************************************************************************)
\* 0.1f32
Tenth == Dy(13421773, 0 - 27)

\* the smallest positive f32
Tiny == Dy(1, 0 - 149)

BlendColors ==
    {LinRGBColor_new(Whole(0), Whole(0), Whole(0)),
     LinRGBColor_new(Whole(1), Whole(1), Whole(1)),
     LinRGBColor_new(Dy(1, -2), Dy(1, -1), Whole(1)),
     LinRGBColor_new(Whole(1), Tenth, Dy(3, -2)),
     LinRGBColor_new(Tenth, Tiny, Dy(1, -1)),
     LinRGBColor_new(Whole(2), Whole(0 - 1), Dy(1, -1))}

Ratios == {Whole(0), Tiny, Tenth, Dy(1, -1), Dy(3, -2), Whole(1)}

InitBlend ==
    /\ call = NoCall
    /\ chan = NoChan
    /\ ang = NoAng
    /\ col = NoCol
    /\ hsv = NoHSV
    /\ iter = NoIter
    /\ pal = NoPal

\* this.blend(other, ratio)
Blend(this, other, ratio) ==
    /\ call.fn = "none"
    /\ call' = [call EXCEPT !.fn = "blend", !.args = <<this, other, ratio>>,
                            !.ret = blend(this, other, ratio)]
    /\ UNCHANGED <<chan, ang, col, hsv, iter, pal>>

\* Alpha::new(color, alpha).blend(bg)
AlphaBlendOpaque(fg, bg) ==
    /\ call.fn = "none"
    /\ call' = [call EXCEPT !.fn = "Alpha::blend", !.args = <<fg, bg>>,
                            !.ret = Alpha_blend(fg, bg)]
    /\ UNCHANGED <<chan, ang, col, hsv, iter, pal>>

\* Alpha::new(color, alpha).alpha_blend(bg)
AlphaBlend(fg, bg) ==
    /\ call.fn = "none"
    /\ call' = [call EXCEPT !.fn = "alpha_blend", !.args = <<fg, bg>>,
                            !.ret = alpha_blend(fg, bg)]
    /\ UNCHANGED <<chan, ang, col, hsv, iter, pal>>

\* alpha.rs: Alpha::<RGBColor<T, S>, A>::default()
DefaultAlpha(T, A) ==
    /\ call.fn = "none"
    /\ call' = [call EXCEPT !.fn = "Alpha::default", !.args = <<T, A>>,
                            !.ret = Alpha_default(T, A)]
    /\ UNCHANGED <<chan, ang, col, hsv, iter, pal>>

NextBlend ==
    \/ \E this, other \in BlendColors : \E ratio \in Ratios : Blend(this, other, ratio)
    \/ \E c, bg \in BlendColors : \E a \in Ratios :
          AlphaBlendOpaque([color |-> c, alpha |-> a], bg)
    \/ \E c, d \in BlendColors : \E a, b \in Ratios :
          AlphaBlend([color |-> c, alpha |-> a], [color |-> d, alpha |-> b])
    \/ \E T, A \in ColorTypes : DefaultAlpha(T, A)

SpecBlend == InitBlend /\ [][NextBlend]_vars

(***************************************************************************)
(* Shades: shades is called on an sRGB colour made by SRGBColor::new.      *)
(***************************************************************************)
\* -1.0, 0.0, 0.02, 0.04, 0.2, 0.5, 0.6, 0.8, 1.0, 2.0 and NaN
ShadeSamples ==
    {Whole(-1), Whole(0), Dy(5368709, 0 - 28), Dy(5368709, 0 - 27), Dy(13421773, 0 - 26),
     Dy(1, 0 - 1), Dy(5033165, 0 - 23), Dy(13421773, 0 - 24), Whole(1), Whole(2), NaN}

InitShades ==
    /\ call = NoCall
    /\ chan = NoChan
    /\ ang = NoAng
    /\ col = NoCol
    /\ hsv = NoHSV
    /\ iter = NoIter
    /\ pal = NoPal

\* shades(SRGBColor::new(r, g, b)); a NaN channel is one that the
\* comparisons of the clamp let through, or one assigned to the pub field
Shades(r, g, b) ==
    /\ call.fn = "none"
    /\ call' = [call EXCEPT !.fn = "shades", !.args = <<RGBColor_new("f32", r, g, b)>>,
                            !.ret = shades(RGBColor_new("f32", r, g, b))]
    /\ UNCHANGED <<chan, ang, col, hsv, iter, pal>>

\* color.rs: SRGBColor::new(r, g, b).shades()
ColorShades(r, g, b) ==
    /\ call.fn = "none"
    /\ call' = [call EXCEPT !.fn = "Color::shades",
                            !.args = <<color_SRGBColor_new(r, g, b)>>,
                            !.ret = Color_shades(color_SRGBColor_new(r, g, b))]
    /\ UNCHANGED <<chan, ang, col, hsv, iter, pal>>

NextShades ==
    \/ \E r, g, b \in ShadeSamples : Shades(r, g, b)
    \/ \E r, g, b \in ShadeSamples : ColorShades(r, g, b)

SpecShades == InitShades /\ [][NextShades]_vars

(***************************************************************************)
(* The round trip of test.rs fn rgb_to_hsv: an 8-bit colour is converted   *)
(* to f32 channels, to HSV, normalized, back to RGB and back to 8 bits.    *)
(***************************************************************************)
TripSamples == {Whole(0), Whole(55), Whole(128), Whole(255)}

InitTrip ==
    /\ col = NoCol
    /\ hsv = NoHSV
    /\ iter = NoIter
    /\ pal = NoPal
    /\ chan = NoChan
    /\ ang = NoAng
    /\ call = NoCall

\* color.conv::<U>(), to the other channel type
ConvRGB(U) ==
    /\ col.kind = "rgb"
    /\ col.T # U
    /\ col.ops \in {<<"new">>, <<"new", "conv", "rgb">>,
                   <<"new", "conv", "std_decode", "std_encode">>, <<"from", "rgb">>}
    /\ col' = [col EXCEPT !.T = U, !.c = RGBColor_conv(col.T, U, col.c),
                          !.ops = Append(col.ops, "conv")]
    /\ UNCHANGED <<chan, ang, hsv, call, iter, pal>>

\* color.hsv::<H>()
RGBToHSV(H) ==
    /\ col.kind = "rgb"
    /\ col.ops = <<"new", "conv">>
    /\ hsv.kind = "none"
    /\ hsv' = [kind |-> "hsv", H |-> H, T |-> col.T, c |-> RGBColor_hsv(H, col.T, col.c),
               args |-> <<col.c.r, col.c.g, col.c.b>>, ops |-> <<"hsv">>]
    /\ UNCHANGED <<chan, ang, col, call, iter, pal>>

\* hsv.rgb()
HSVToRGB ==
    /\ hsv.kind = "hsv"
    /\ col.ops = <<"new", "conv">>
    /\ col' = [col EXCEPT !.T = hsv.T, !.c = HSVColor_rgb(hsv.H, hsv.T, hsv.c),
                          !.ops = Append(col.ops, "rgb")]
    /\ UNCHANGED <<chan, ang, hsv, call, iter, pal>>

NextTrip ==
    \/ \E r, g, b \in TripSamples : NewRGB("u8", r, g, b)
    \/ \E U \in ColorTypes : ConvRGB(U)
    \/ RGBToHSV("Deg<f32>")
    \/ NormalizeHSV
    \/ HSVToRGB

SpecTrip == InitTrip /\ [][NextTrip]_vars

(***************************************************************************)
(* The round trip of test.rs fn srgb_to_linear: an 8-bit sRGB colour is    *)
(* converted to f32 channels, decoded to the linear space, encoded back    *)
(* and converted back to 8 bits.                                           *)
(***************************************************************************)
GammaSamples == {Whole(0), Whole(55), Whole(127), Whole(128), Whole(254), Whole(255)}

InitGamma == InitTrip

\* srgb.std_decode()
StdDecode ==
    /\ col.kind = "rgb"
    /\ col.T = "f32"
    /\ col.ops = <<"new", "conv">>
    /\ col' = [col EXCEPT !.c = std_decode(col.c), !.ops = Append(col.ops, "std_decode")]
    /\ UNCHANGED <<chan, ang, hsv, call, iter, pal>>

\* lin_rgb.std_encode()
StdEncode ==
    /\ col.kind = "rgb"
    /\ col.ops = <<"new", "conv", "std_decode">>
    /\ col' = [col EXCEPT !.c = std_encode(col.c), !.ops = Append(col.ops, "std_encode")]
    /\ UNCHANGED <<chan, ang, hsv, call, iter, pal>>

NextGamma ==
    \/ \E r, g, b \in GammaSamples : NewRGB("u8", r, g, b)
    \/ \E U \in ColorTypes : ConvRGB(U)
    \/ StdDecode
    \/ StdEncode

SpecGamma == InitGamma /\ [][NextGamma]_vars

(***************************************************************************)
(* The helper clamp of util.rs and color.rs, called on f32 values.         *)
(***************************************************************************)
ClampSamples ==
    {Inf(TRUE), Whole(-1), NegZero, Whole(0), Dy(1, -1), Whole(1), Whole(2), Inf(FALSE), NaN}

InitClamp == InitShades

\* clamp(value, min, max)
Clamp(value, min, max) ==
    /\ call.fn = "none"
    /\ call' = [call EXCEPT !.fn = "clamp", !.args = <<value, min, max>>,
                            !.ret = util_clamp(value, min, max)]
    /\ UNCHANGED <<chan, ang, col, hsv, iter, pal>>

NextClamp == \E value, min, max \in ClampSamples : Clamp(value, min, max)

SpecClamp == InitClamp /\ [][NextClamp]_vars

(***************************************************************************)
(* Base colours: a BaseColor is turned into an 8-bit sRGB colour by        *)
(* srgb24(), by RGBColor::from, and by HSVColor::from followed by rgb()    *)
(* and conv::<u8>().                                                       *)
(***************************************************************************)
InitBase == InitTrip

\* base_color.srgb24()
Srgb24(b) ==
    /\ call.fn = "none"
    /\ call' = [call EXCEPT !.fn = "srgb24", !.args = <<b>>, !.ret = BaseColor_srgb24(b)]
    /\ UNCHANGED <<chan, ang, col, hsv, iter, pal>>

\* RGBColor::<T, SRGBSpace>::from(base_color)
FromBaseRGB(T, b) ==
    /\ col.kind = "none"
    /\ col' = [kind |-> "rgb", T |-> T, A |-> "none", c |-> RGBColor_from_base(T, b),
               alpha |-> Whole(0), args |-> <<b>>, ops |-> <<"from">>]
    /\ UNCHANGED <<chan, ang, hsv, call, iter, pal>>

\* HSVColor::<H, T, SRGBSpace>::from(base_color)
FromBaseHSV(H, T, b) ==
    /\ hsv.kind = "none"
    /\ hsv' = [kind |-> "hsv", H |-> H, T |-> T, c |-> HSVColor_from_base(H, T, b),
               args |-> <<b>>, ops |-> <<"from">>]
    /\ UNCHANGED <<chan, ang, col, call, iter, pal>>

\* hsv.rgb() on the colour made from a base colour
BaseHSVToRGB ==
    /\ hsv.kind = "hsv"
    /\ hsv.ops = <<"from">>
    /\ col.kind = "none"
    /\ col' = [kind |-> "rgb", T |-> hsv.T, A |-> "none",
               c |-> HSVColor_rgb(hsv.H, hsv.T, hsv.c),
               alpha |-> Whole(0), args |-> hsv.args, ops |-> <<"from", "rgb">>]
    /\ UNCHANGED <<chan, ang, hsv, call, iter, pal>>

NextBase ==
    \/ \E b \in BaseColors : Srgb24(b)
    \/ \E b \in BaseColors : FromBaseRGB("u8", b)
    \/ \E b \in BaseColors : FromBaseHSV("Deg<f32>", "f32", b)
    \/ BaseHSVToRGB
    \/ \E U \in ColorTypes : ConvRGB(U)

SpecBase == InitBase /\ [][NextBase]_vars

(***************************************************************************)
(* Palettes: Palette::parse of palette.rs or of main.rs reads the lines of *)
(* its input one by one and returns at the first error or after the last   *)
(* line.                                                                   *)
(***************************************************************************)
\* the number of lines of an input
MaxLines == 4

\* a:  :  b:  "* R #FF0000"  "*g#00ff00"  the empty line  "* b: #0000FF"
\* and "*<tab>C<tab> #00FFFF", and a line that is not UTF-8
PaletteLines ==
    {io_Error, <<"a", ":">>, <<":">>, <<"b", ":">>,
     <<"*", " ", "R", " ", "#", "F", "F", "0", "0", "0", "0">>,
     <<"*", "\t", "C", "\t", " ", "#", "0", "0", "F", "F", "F", "F">>,
     <<"*", "g", "#", "0", "0", "f", "f", "0", "0">>,
     <<>>,
     <<"*", " ", "b", ":", " ", "#", "0", "0", "0", "0", "F", "F">>}

PaletteInputs == UNION {[1..n -> PaletteLines] : n \in 0..MaxLines}

PaletteVersions == {"palette.rs", "main.rs"}

InitPalette == InitShades

\* Palette::parse(input), up to its loop
Parse(ver, input) ==
    /\ pal.ver = "none"
    /\ pal' = [NoPal EXCEPT !.ver = ver, !.lines = input,
                            !.res = IF input = <<>> THEN "Ok" ELSE "reading"]
    /\ UNCHANGED <<chan, ang, col, hsv, call, iter>>

\* one turn of the loop, and the return when it was the last
ReadLine ==
    /\ pal.res = "reading"
    /\ LET p == parse_line(pal, pal.lines[pal.read + 1])
       IN  pal' = [p EXCEPT !.read = pal.read + 1,
                            !.res = IF p.res \in {"Err", "Err(IO)"} THEN p.res
                                    ELSE IF pal.read + 1 = Len(pal.lines) THEN "Ok"
                                    ELSE "reading"]
    /\ UNCHANGED <<chan, ang, col, hsv, call, iter>>

NextPalette ==
    \/ \E ver \in PaletteVersions : \E input \in PaletteInputs : Parse(ver, input)
    \/ ReadLine

SpecPalette == InitPalette /\ [][NextPalette]_vars

(***************************************************************************)
(* Sectors: rgb() is called on HSV colours whose channels are in range,    *)
(* the hue up to the full angle, which an assignment to the field puts     *)
(* there.                                                                  *)
(***************************************************************************)
SectorTypes == {<<"Deg<f32>", "f32">>, <<"Deg<i16>", "f32">>, <<"Deg<f32>", "u8">>}

SectorHues(H) ==
    CASE H = "Deg<f32>" ->
            {Whole(0), Whole(30), Dy(119, -1), Whole(60), Whole(120), Whole(180),
             Whole(240), Whole(300), Dy(719, -1), Whole(360)}
      [] H = "Deg<i16>" -> {Whole(0), Whole(59), Whole(60), Whole(300), Whole(359), Whole(360)}

SectorSamples(T) ==
    CASE T = "f32" -> {Whole(0), Dy(1, -2), Dy(3, -2), Whole(1)}
      [] T = "u8" -> {Whole(0), Whole(128), Whole(255)}

InitSector == InitHSV

\* hsv.rgb()
RgbHSV ==
    /\ hsv.kind = "hsv"
    /\ call.fn = "none"
    /\ call' = [call EXCEPT !.fn = "HSVColor::rgb", !.args = <<hsv.H, hsv.T, hsv.c>>,
                            !.ret = HSVColor_rgb(hsv.H, hsv.T, hsv.c)]
    /\ UNCHANGED <<chan, ang, col, hsv, iter, pal>>

\* color/hsv.rs: hsv.rgb() on the colour with the fields h, s, v
ColorRgbHSV(h, s, v) ==
    /\ call.fn = "none"
    /\ hsv.kind = "none"
    /\ call' = [call EXCEPT !.fn = "color::HSVColor::rgb",
                            !.args = <<"Deg<f32>", "f32", [h |-> h, s |-> s, v |-> v]>>,
                            !.ret = color_HSVColor_rgb([h |-> h, s |-> s, v |-> v])]
    /\ UNCHANGED <<chan, ang, col, hsv, iter, pal>>

\* one call of rgb() in a behaviour, on the last colour made
NextSector ==
    \/ /\ call.fn = "none"
       /\ \E ty \in SectorTypes : \E h \in SectorHues(ty[1]) :
             \E s, v \in SectorSamples(ty[2]) : NewHSV(ty[1], ty[2], h, s, v)
    \/ /\ call.fn = "none"
       /\ \E ty \in SectorTypes : \E x \in SectorHues(ty[1]) : AssignHSV(ty, "h", x)
    \/ RgbHSV
    \/ \E h \in SectorHues("Deg<f32>") : \E s, v \in SectorSamples("f32") : ColorRgbHSV(h, s, v)

SpecSector == InitSector /\ [][NextSector]_vars

(***************************************************************************)
(* Iteration: a colour, with or without alpha, is turned into an iterator  *)
(* over its channels and next() is called on it.                           *)
(***************************************************************************)
\* the number of calls of next() on one iterator
MaxNext == 6

IterTypes == {"u16", "f32"}

IterSamples(T) ==
    CASE T = "u16" -> {Whole(0), Whole(8), Whole(240), Whole(255)}
      [] T = "f32" -> {Whole(0), Dy(1, -2), Dy(1, -1), Whole(1)}

InitIter == InitRGB

\* color.into_iter()
IntoIter ==
    /\ col.kind # "none"
    /\ iter.kind = "none"
    /\ LET i == IF col.kind = "rgb" THEN RGBColor_into_iter(col.c)
                ELSE Alpha_into_iter([color |-> col.c, alpha |-> col.alpha])
       IN  iter' = [kind |-> "iter", array |-> i.array, idx |-> i.idx, out |-> <<>>]
    /\ UNCHANGED <<chan, ang, col, hsv, call, pal>>

\* iter.next()
IterNext ==
    /\ iter.kind = "iter"
    /\ Len(iter.out) < MaxNext
    /\ LET n == IntoIter_next([array |-> iter.array, idx |-> iter.idx])
       IN  iter' = [iter EXCEPT !.idx = n.self.idx, !.out = Append(iter.out, n.ret)]
    /\ UNCHANGED <<chan, ang, col, hsv, call, pal>>

NextIter ==
    \/ \E T \in IterTypes : \E r, g, b \in IterSamples(T) : NewRGB(T, r, g, b)
    \/ \E T \in IterTypes : \E r, g, b, alpha \in IterSamples(T) :
          NewAlpha(T, T, r, g, b, alpha)
    \/ IntoIter
    \/ IterNext

SpecIter == InitIter /\ [][NextIter]_vars

(***************************************************************************)
(* Arithmetic: an operator is applied to two colours of the linear space,  *)
(* or to a colour and a scalar.  The build either checks the overflow of   *)
(* integer arithmetic (checks) or lets it wrap.                            *)
(***************************************************************************)
ArithTypes == {"u16", "f32"}

ArithSamples(T) ==
    CASE T = "u16" -> {Whole(1), Whole(256), Whole(65535)}
      [] T = "f32" -> {Dy(1, -2), Dy(3, -2), Whole(1)}

\* in-range colours: two channels over the samples, the third at an end
ArithColors(T) ==
    {[r |-> x, g |-> y, b |-> z] : x, y \in ArithSamples(T), z \in {ch_zero(T), ch_max(T)}}

InitArith == InitShades

\* lhs + rhs, lhs - rhs, lhs * rhs, lhs / rhs on RGBColor<T, LinearSpace>
OpRGB(T, fun, lhs, rhs, checks) ==
    /\ call.fn = "none"
    /\ call' = [call EXCEPT !.fn = "RGBColor::op", !.args = <<T, fun, lhs, rhs, checks>>,
                            !.ret = RGBColor_op(T, fun, lhs, rhs, checks)]
    /\ UNCHANGED <<chan, ang, col, hsv, iter, pal>>

\* lhs * x, lhs / x on RGBColor<T, LinearSpace>
OpScalarRGB(T, fun, lhs, x, checks) ==
    /\ call.fn = "none"
    /\ call' = [call EXCEPT !.fn = "RGBColor::op_scalar",
                            !.args = <<T, fun, lhs, splat(x), checks>>,
                            !.ret = RGBColor_op_scalar(T, fun, lhs, x, checks)]
    /\ UNCHANGED <<chan, ang, col, hsv, iter, pal>>

\* color/linrgb.rs: lhs + rhs, lhs - rhs on LinRGB48Color, and with a scalar
\* in each channel of rhs lhs * x, lhs / x
OpLinRGB48(fun, lhs, rhs, checks) ==
    /\ call.fn = "none"
    /\ call' = [call EXCEPT !.fn = "LinRGB48Color::op",
                            !.args = <<"u16", fun, lhs, rhs, checks>>,
                            !.ret = LinRGB48Color_op(fun, lhs, rhs, checks)]
    /\ UNCHANGED <<chan, ang, col, hsv, iter, pal>>

NextArith ==
    \/ \E T \in ArithTypes : \E fun \in RGBFuns : \E lhs, rhs \in ArithColors(T) :
          \E checks \in BOOLEAN : OpRGB(T, fun, lhs, rhs, checks)
    \/ \E T \in ArithTypes : \E fun \in {"mul", "div"} : \E lhs \in ArithColors(T) :
          \E x \in ArithSamples(T) : \E checks \in BOOLEAN : OpScalarRGB(T, fun, lhs, x, checks)
    \/ \E fun \in {"add", "sub"} : \E lhs, rhs \in ArithColors("u16") :
          \E checks \in BOOLEAN : OpLinRGB48(fun, lhs, rhs, checks)
    \/ \E fun \in {"mul", "div"} : \E lhs \in ArithColors("u16") :
          \E x \in ArithSamples("u16") : \E checks \in BOOLEAN :
             OpLinRGB48(fun, lhs, splat(x), checks)

SpecArith == InitArith /\ [][NextArith]_vars

(***************************************************************************)
(* Properties of the channel conversions                                   *)
(***************************************************************************)
\* round(x * max_T / max_S) over the rationals, halves away from zero, for
\* whole x >= 0, max_S > 0 and max_T
exact_rescale(x, max_S, max_T) ==
    LET n == BMul(BShl(x.m, x.e), BShl(max_T.m, max_T.e))
        d == BShl(max_S.m, max_S.e)
    IN  Fin(FALSE, BDivMod(BAdd(BShl(n, 1), d), BShl(d, 1))[1], 0)

\* the value of the channel's range nearest to x
nearest_in_range(ty, x) ==
    IF Gt(x, ch_max(ty)) THEN ch_max(ty) ELSE IF Lt(x, ch_zero(ty)) THEN ch_zero(ty) ELSE x

RoundingTypes == {"u8", "u16", "f32"}

\* the sources C2 is about: every u8 and u16, and the floats whose nearest
\* value in range is an endpoint of the range
rounding_source ==
    /\ chan.src_ty \in RoundingTypes
    /\ chan.src.k # "nan"
    /\ chan.src_ty = "f32" =>
          nearest_in_range("f32", chan.src) \in {Whole(0), NegZero, Whole(1)}

\* C2: a conversion between u8, u16 and the float endpoints returns
\* round(clamp(x) / S.ch_max * U.ch_max), rounded to nearest and not truncated
C2_ConvRounds ==
    (chan.hops = 1 /\ chan.ty \in RoundingTypes /\ rounding_source)
        => Eq(chan.v, exact_rescale(nearest_in_range(chan.src_ty, chan.src),
                                    ch_max(chan.src_ty), ch_max(chan.ty)))

\* 129u16.conv::<u8>() is 1: 129 / 257 is above one half, a truncation gives 0
C2_Witness ==
    /\ chan.hops = 1
    /\ chan.src_ty = "u16"
    /\ chan.ty = "u8"
    /\ chan.src = Whole(129)
    /\ chan.v = Whole(1)

WideningPairs == {<<"u8", "u16">>, <<"u8", "f32">>, <<"u8", "f64">>, <<"u16", "f32">>,
                  <<"u16", "f64">>}

\* C3: converting to a type that loses no precision and back returns
\* x.to_range()
C3_WidenNarrowIdentity ==
    (chan.hops = 2 /\ <<chan.src_ty, chan.via>> \in WideningPairs)
        => chan.v = to_range(chan.src_ty, chan.src)

\* C4: a conversion between two unsigned integer types does not fail, takes
\* ch_zero to ch_zero and ch_max to ch_max
C4_IntegerConv ==
    (chan.hops = 1 /\ chan.src_ty \in UIntTypes /\ chan.ty \in UIntTypes)
        => /\ ~IsPanic(chan.v)
           /\ chan.src = ch_zero(chan.src_ty) => chan.v = ch_zero(chan.ty)
           /\ chan.src = ch_max(chan.src_ty) => chan.v = ch_max(chan.ty)

\* C9: for a float f in [0, 1], f.conv::<Deg<f32>>() is within [0, 360) and
\* is (f * 360) mod 360, not rounded to a whole number of degrees
C9_FloatToDegrees ==
    (chan.hops = 1 /\ chan.src_ty = "f32" /\ in_range("f32", chan.src)
                   /\ chan.ty = "Deg<f32>")
        => /\ Ge(chan.v, Whole(0))
           /\ Lt(chan.v, Whole(360))
           /\ Eq(chan.v, FRem(FMul("f32", chan.src, Whole(360)), Whole(360)))

(***************************************************************************)
(* Properties of the angles                                                *)
(***************************************************************************)
\* a is within [zero_angle, full_angle)
within(ty, a) == Ge(a, zero_angle(ty)) /\ Lt(a, full_angle(ty))

\* the non-negative remainder of a finite a by full > 0, over the rationals
euclid_rem(a, full) ==
    LET positive(r) == IF r.neg /\ ~IsZero(r) THEN ExactAdd(r, full) ELSE r
    IN  positive(FRem(a, full))

ModuloTypes == AngleTypes \ IntRevTypes

\* C5: on the modulo-wrapped angle types wrap(a) is within
\* [zero_angle, full_angle) and is the non-negative remainder of a
C5_WrapIsRemainder ==
    (ang.op = "wrap" /\ ang.ty \in ModuloTypes /\ IsFin(ang.lhs))
        => /\ within(ang.ty, ang.v)
           /\ Eq(ang.v, euclid_rem(ang.lhs, full_angle(ang.ty)))

\* C6: a binary operator on two in-range angles returns the wrapped raw
\* result, within [zero_angle, full_angle) (a division or a remainder by the
\* zero angle, which has no result, set aside)
C6_BinaryOpWrapped ==
    (/\ ang.op = "binary"
     /\ within(ang.ty, ang.lhs)
     /\ within(ang.ty, ang.rhs)
     /\ ang.fun \in {"div", "rem"} => ~IsZero(ang.rhs))
        => /\ ~IsPanic(ang.v)
           /\ ang.v = wrap(ang.ty, prim_op(ang.ty, ang.fun, ang.lhs, ang.rhs, ang.checks))
           /\ within(ang.ty, ang.v)

\* C7: no sequence of angle operations that returns, the compound
\* assignments included, leaves an angle outside [zero_angle, full_angle)
C7_NeverOutOfBounds ==
    (ang.ty # "none" /\ ang.op \in {"binary", "assign"} /\ ~IsPanic(ang.v))
        => within(ang.ty, ang.v)

\* C8: the full angle wraps to the zero angle, for every angle type
C8_FullWrapsToZero ==
    (ang.op = "wrap" /\ ang.lhs = full_angle(ang.ty))
        => Eq(ang.v, zero_angle(ang.ty))

(***************************************************************************)
(* Properties of the colours                                               *)
(***************************************************************************)
\* the channel made from the argument arg is in range, and is the bound of
\* the range that arg lies beyond
clamped(ty, arg, c) ==
    /\ in_range(ty, c)
    /\ Gt(arg, ch_max(ty)) => Eq(c, ch_max(ty))
    /\ Lt(arg, ch_zero(ty)) => Eq(c, ch_zero(ty))

\* C1: RGBColor::new and Alpha::new clamp every channel, alpha included,
\* whatever the arguments, so the colour they return is normal
C1_NewClamps ==
    (col.kind # "none" /\ col.ops = <<"new">>)
        => /\ clamped(col.T, col.args[1], col.c.r)
           /\ clamped(col.T, col.args[2], col.c.g)
           /\ clamped(col.T, col.args[3], col.c.b)
           /\ col.kind = "rgba" => clamped(col.A, col.args[4], col.alpha)
           /\ col_is_normal

\* C10: a colour made with saturation zero and normalized has hue zero; one
\* made with value zero and normalized has hue zero and saturation zero
C10_Degenerate ==
    (hsv.kind = "hsv" /\ hsv.ops = <<"new", "normalize">>)
        => /\ Eq(hsv.args[2], ch_zero(hsv.T)) => Eq(hsv.c.h, ch_zero(hsv.H))
           /\ Eq(hsv.args[3], ch_zero(hsv.T)) =>
                 Eq(hsv.c.h, ch_zero(hsv.H)) /\ Eq(hsv.c.s, ch_zero(hsv.T))

\* HSVColor::new(60.0, 0.0, 0.5).normalize() is the grey (0, 0, 0.5)
C10_Witness ==
    /\ hsv.ops = <<"new", "normalize">>
    /\ hsv.args = <<Whole(60), Whole(0), Dy(1, -1)>>
    /\ hsv.c = [h |-> Whole(0), s |-> Whole(0), v |-> Dy(1, -1)]

\* C11: a colour returned by HSVColor::new or by normalize is normal
C11_NewIsNormal ==
    (hsv.kind = "hsv" /\ hsv.ops # <<>> /\ hsv.ops[Len(hsv.ops)] \in {"new", "normalize"})
        => HSVColor_is_normal(hsv.H, hsv.T, hsv.c)

\* C12: HSVColor::new panics whenever the saturation or the value it is
\* given is not within ch_zero..=ch_max, and so never returns a colour with
\* that channel clamped
C12_NewFailsLoudly ==
    (hsv.ops = <<"new">> /\ (~in_range(hsv.T, hsv.args[2]) \/ ~in_range(hsv.T, hsv.args[3])))
        => hsv.c = PanicHSV

\* the normal form in words: hue within [zero, full), saturation and value
\* within their range, black has hue and saturation zero, a grey has hue zero
normal_form(H, T, c) ==
    /\ Ge(c.h, zero_angle(H)) /\ Lt(c.h, full_angle(H))
    /\ in_range(T, c.s) /\ in_range(T, c.v)
    /\ Eq(c.v, ch_zero(T)) => (Eq(c.h, ch_zero(H)) /\ Eq(c.s, ch_zero(T)))
    /\ Eq(c.s, ch_zero(T)) => Eq(c.h, ch_zero(H))

\* C13: is_normal() is true exactly of the colours in normal form; a hue
\* equal to the full angle is not normal
C13_IsNormalIff ==
    (hsv.kind = "hsv") => (HSVColor_is_normal(hsv.H, hsv.T, hsv.c)
                              <=> normal_form(hsv.H, hsv.T, hsv.c))

\* C14: an 8-bit colour converted to f32 channels, to HSV with a Deg<f32>
\* hue, normalized, converted back to RGB and back to 8 bits is the colour
\* it started as
C14_RoundTrip ==
    (col.ops = <<"new", "conv", "rgb", "conv">> /\ hsv.ops = <<"hsv", "normalize">>)
        => col.c = [r |-> col.args[1], g |-> col.args[2], b |-> col.args[3]]

\* a string of hex digits [0-9a-fA-F] only
all_hex(str) == \A i \in DOMAIN str : to_digit(str[i]) >= 0

\* the string with its letters in upper case
uppercased(str) ==
    [i \in DOMAIN str |->
        IF \E j \in DOMAIN LowerCase : LowerCase[j] = str[i]
        THEN UpperCase[CHOOSE j \in DOMAIN LowerCase : LowerCase[j] = str[i]]
        ELSE str[i]]

\* xyz to xxyyzz
doubled(str) == <<str[1], str[1], str[2], str[2], str[3], str[3]>>

parsed_and_formatted == call.fn \in {"from_hex", "from_hex_unchecked"} /\ call.out # <<>>

\* C15 as stated: a string of 6 hex digits parsed and formatted as upper hex
\* is the string itself, one of 3 hex digits xyz is xxyyzz
C15_HexIdentity ==
    (parsed_and_formatted /\ all_hex(call.args[1]))
        => /\ Len(call.args[1]) = 6 => call.out = call.args[1]
           /\ Len(call.args[1]) = 3 => call.out = doubled(call.args[1])

\* C15: from_hex and from_hex_unchecked return a colour for every string of
\* 6 or of 3 hex digits, and the colour formatted as upper hex is the string
\* with its letters in upper case, a 3-digit string xyz giving XXYYZZ
C15_HexRoundTrip ==
    (call.fn \in {"from_hex", "from_hex_unchecked"} /\ all_hex(call.args[1])
        /\ Len(call.args[1]) \in {3, 6})
        => /\ call.ret.k = "some"
           /\ (call.out # <<>> /\ Len(call.args[1]) = 6)
                 => call.out = uppercased(call.args[1])
           /\ (call.out # <<>> /\ Len(call.args[1]) = 3)
                 => call.out = doubled(uppercased(call.args[1]))

\* "Fa1" parsed by from_hex and formatted is "FFAA11"
C15_Witness ==
    /\ call.fn = "from_hex"
    /\ call.args = << <<"F", "a", "1">> >>
    /\ call.out = <<"F", "F", "A", "A", "1", "1">>

\* C16: from_hex returns None for every string whose length is neither 3
\* nor 6 and for every string with a character outside [0-9a-fA-F]
C16_MalformedIsNone ==
    (call.fn = "from_hex"
        /\ (Len(call.args[1]) \notin {3, 6} \/ ~all_hex(call.args[1])))
        => call.ret.k = "none"

\* a * t + b * (1 - t), exactly
exact_convex(a, b, t) == ExactAdd(ExactMul(a, t), ExactMul(b, ExactAdd(Whole(1), Neg(t))))

\* x and y differ by 2^-22 at most, a few units in the last place of an f32
\* near 1.0
close(x, y) == Le(FAbs(ExactAdd(x, Neg(y))), Dy(1, 0 - 22))

\* fg.alpha + bg.alpha * (1 - fg.alpha), exactly
exact_alpha(fg, bg) == ExactAdd(fg.alpha, ExactMul(bg.alpha, ExactAdd(Whole(1), Neg(fg.alpha))))

\* C17: alpha_blend never divides by zero: for alphas in [0, 1] its alpha is
\* fg.alpha + bg.alpha * (1 - fg.alpha), it divides by that alpha only, and
\* when that is 0 it divides by nothing and returns the default colour,
\* whose alpha is ch_zero
C17_AlphaBlend ==
    (call.fn = "alpha_blend")
        => /\ close(call.ret.alpha, exact_alpha(call.args[1], call.args[2]))
           /\ \A i \in DOMAIN call.ret.divisors : ~IsZero(call.ret.divisors[i])
           /\ IF IsZero(exact_alpha(call.args[1], call.args[2]))
              THEN /\ call.ret = color_Alpha_default
                   /\ call.ret.alpha = ch_zero("f32")
                   /\ call.ret.divisors = <<>>
              ELSE call.ret.divisors = <<call.ret.alpha>>

\* two fully transparent colours blend to the transparent default, and
\* nothing is divided
C17_Witness ==
    /\ call.fn = "alpha_blend"
    /\ call.args[1].alpha = Whole(0) /\ call.args[2].alpha = Whole(0)
    /\ call.args[1].color = LinRGBColor_new(Whole(1), Whole(1), Whole(1))
    /\ call.ret = color_Alpha_default
    /\ call.ret.divisors = <<>>

\* C18: blend is the convex combination self * ratio + other * (1 - ratio)
\* of each channel, exactly self at ratio 1 and exactly other at ratio 0,
\* and Alpha::blend is fg.color * fg.alpha + bg * (1 - fg.alpha)
C18_BlendConvex ==
    /\ (call.fn = "blend")
          => /\ \A ch \in {"r", "g", "b"} :
                   close(call.ret[ch],
                         exact_convex(call.args[1][ch], call.args[2][ch], call.args[3]))
             /\ call.args[3] = Whole(1) => call.ret = call.args[1]
             /\ call.args[3] = Whole(0) => call.ret = call.args[2]
    /\ (call.fn = "Alpha::blend")
          => \A ch \in {"r", "g", "b"} :
                close(call.ret[ch],
                      exact_convex(call.args[1].color[ch], call.args[2][ch],
                                   call.args[1].alpha))

\* white blended with (0.25, 0.5, 1.0) at the ratio 0.75
C18_Witness ==
    /\ call.fn = "blend"
    /\ call.args = <<LinRGBColor_new(Whole(1), Whole(1), Whole(1)),
                     LinRGBColor_new(Dy(1, -2), Dy(1, -1), Whole(1)), Dy(3, -2)>>
    /\ call.ret = [r |-> Dy(13, -4), g |-> Dy(7, -3), b |-> Whole(1)]

\* C19: shades of a colour whose linear relative luminance is below 0.005
\* is the one-element list [(Black, 1.0)]
C19_DarkIsBlack ==
    (call.fn = "shades"
        /\ Lt(relative_luminance(std_decode(call.args[1])), BLACK_CUTOFF_LUMINANCE))
        => call.ret = <<Shade("Black", Whole(1))>>

\* shades(SRGBColor::new(0.04, 0.0, 0.02)) is [(Black, 1.0)]
C19_Witness ==
    /\ call.fn = "shades"
    /\ call.args = <<[r |-> Dy(5368709, 0 - 27), g |-> Whole(0), b |-> Dy(5368709, 0 - 28)]>>
    /\ call.ret = <<Shade("Black", Whole(1))>>

\* the exact sum of the amounts of a list of shades
RECURSIVE exact_sum(_)
exact_sum(list) ==
    IF list = <<>> THEN Whole(0)
    ELSE ExactAdd(exact_sum(Tail(list)), Head(list).amount)

\* C20: for every input colour the weights shades returns are all >= 0 and
\* sum to 1.0
C20_WeightsSumToOne ==
    (call.fn = "shades")
        => /\ \A i \in DOMAIN call.ret : Ge(call.ret[i].amount, Whole(0))
           /\ close(exact_sum(call.ret), Whole(1))

\* C20, for the colours whose three channels are numbers: the weights are
\* all >= 0 and sum to 1.0; for a colour with a NaN channel the list is empty
C20_NumberWeightsSumToOne ==
    (call.fn = "shades")
        => IF \E ch \in RGBChannels : call.args[1][ch] = NaN
           THEN call.ret = <<>>
           ELSE /\ \A i \in DOMAIN call.ret : Ge(call.ret[i].amount, Whole(0))
                /\ close(exact_sum(call.ret), Whole(1))

\* C21: the list shades returns is in descending order of weight: of two
\* adjacent entries the earlier weight is >= the later one
C21_SortedDescending ==
    (call.fn \in {"shades", "Color::shades"})
        => \A i \in DOMAIN call.ret :
              i < Len(call.ret) => Ge(call.ret[i].amount, call.ret[i + 1].amount)

\* SRGBColor::new(1.0, 0.6, 0.0).shades(), of hue 36, is pushed as Red then
\* Yellow and comes back with the heavier Yellow first
C21_Witness ==
    /\ call.fn = "Color::shades"
    /\ call.args = <<[r |-> Whole(1), g |-> Dy(5033165, 0 - 23), b |-> Whole(0)]>>
    /\ Len(call.ret) = 2
    /\ call.ret[1].color = "Yellow"
    /\ call.ret[2].color = "Red"
    /\ Gt(call.ret[1].amount, call.ret[2].amount)

\* the six named hues and their reference hues
NAMED_HUES == <<[hue |-> Whole(0), color |-> "Red"]>> \o COLOR_HUES

\* the angular distance between two hues of [0, 360], measured around the circle
around(h, ref) ==
    LET shorter(d) == IF Gt(d, Whole(180)) THEN ExactAdd(Whole(360), Neg(d)) ELSE d
    IN  shorter(FAbs(ExactAdd(h, Neg(ref))))

\* the weight 1 - d/45 of a reference hue at the distance d
hue_weight(d) == FSub("f32", Whole(1), FDiv("f32", d, HUE_MARGIN))

\* the list as pushed has, for every named hue within 45 degrees of h, one
\* entry of weight 1 - d/45, which lies in [0, 1], and none for the others
hue_weights(h, pushed) ==
    \A n \in DOMAIN NAMED_HUES :
        LET entries == {i \in DOMAIN pushed : pushed[i].color = NAMED_HUES[n].color}
            weighs(d) ==
                IF Le(d, HUE_MARGIN)
                THEN /\ Cardinality(entries) = 1
                     /\ \A i \in entries :
                           /\ Ge(pushed[i].amount, Whole(0))
                           /\ Le(pushed[i].amount, Whole(1))
                           /\ close(pushed[i].amount, hue_weight(d))
                ELSE entries = {}
        IN  weighs(around(h, NAMED_HUES[n].hue))

\* what Color::shades pushes and returns for a colour of the given hsv and
\* luminance, when it is saturated and not dark
saturated_shades(c, lum, ret) ==
    (Gt(c.s, GREYSCALE_SATURATION) /\ ~Lt(lum, BLACK_CUTOFF_LUMINANCE))
        => /\ ret = sorted_and_divided(pushed_shades(c.h, c.s, lum))
           /\ hue_weights(c.h, pushed_shades(c.h, c.s, lum))

\* C22: for a colour of saturation above 0.05, every named hue within 45
\* degrees of the hue h is pushed with the weight 1 - d/45, d the distance
\* around the circle, so the weight is in [0, 1] and Red weighs at h in
\* [315, 360) what it weighs at 360 - h
C22_HueWeights ==
    (call.fn = "Color::shades")
        => saturated_shades(color_SRGBColor_hsv(call.args[1]),
                            relative_luminance(color_SRGBColor_lin_rgb(call.args[1])),
                            call.ret)

(***************************************************************************)
(* Properties of the iterator                                              *)
(***************************************************************************)
\* the channels of col in the order of their declaration
channels_of_col ==
    IF col.kind = "rgb" THEN <<col.c.r, col.c.g, col.c.b>>
    ELSE <<col.c.r, col.c.g, col.c.b, col.alpha>>

\* C23: the calls of next() on the iterator of a colour return its channels
\* once and in order, r, g, b and then alpha if the colour has one, and
\* every call after the last channel returns None.
C23_ChannelsThenNone ==
    iter.kind = "iter" =>
        \A i \in 1..Len(iter.out) :
            iter.out[i] = IF i <= Len(channels_of_col) THEN Some(channels_of_col[i])
                          ELSE None

\* both kinds of colour have been iterated to the end and asked again
C23_Witness ==
    /\ iter.kind = "iter"
    /\ col.kind = "rgb"
    /\ col.T = "u16"
    /\ col.args = <<Whole(255), Whole(8), Whole(240)>>
    /\ iter.out = <<Some(Whole(255)), Some(Whole(8)), Some(Whole(240)), None, None, None>>

(***************************************************************************)
(* Properties of the arithmetic of colours                                 *)
(***************************************************************************)
\* a + b, a - b, a * b over the rationals
exact_op(fun, a, b) ==
    CASE fun = "add" -> ExactAdd(a, b)
      [] fun = "sub" -> ExactAdd(a, Neg(b))
      [] fun = "mul" -> ExactMul(a, b)

\* the exact result of the operator put into [ch_zero, ch_max] and, for a
\* float type, rounded to the format
exact_clamped(T, fun, a, b) == Round(T, nearest_in_range(T, exact_op(fun, a, b)))

ArithCalls == {"RGBColor::op", "RGBColor::op_scalar", "LinRGB48Color::op"}

\* C24: a + b, a - b, a * b and a * scalar on in-range colours of the linear
\* space with u16 or f32 channels return, in each channel, the exact result
\* clamped to [ch_zero, ch_max]; nothing overflows, wraps or panics.
C24_ArithmeticClamps ==
    (call.fn \in ArithCalls /\ call.args[2] \in {"add", "sub", "mul"}) =>
        \A ch \in RGBChannels :
            call.ret[ch] = exact_clamped(call.args[1], call.args[2],
                                         call.args[3][ch], call.args[4][ch])

\* the same for the f32 channels alone
C24_FloatArithmeticClamps ==
    (call.fn \in ArithCalls /\ call.args[2] \in {"add", "sub", "mul"} /\ call.args[1] = "f32") =>
        \A ch \in RGBChannels :
            call.ret[ch] = exact_clamped(call.args[1], call.args[2],
                                         call.args[3][ch], call.args[4][ch])

\* the same for the u16 results that stay in 0..65535 before the clamping
C24_NoOverflowArithmeticClamps ==
    (/\ call.fn \in ArithCalls
     /\ call.args[2] \in {"add", "sub", "mul"}
     /\ call.args[1] = "u16"
     /\ \A ch \in RGBChannels :
           in_range("u16", exact_op(call.args[2], call.args[3][ch], call.args[4][ch])))
        => \A ch \in RGBChannels :
              call.ret[ch] = exact_clamped(call.args[1], call.args[2],
                                           call.args[3][ch], call.args[4][ch])

(***************************************************************************)
(* Properties of the gamma round trip                                      *)
(***************************************************************************)
gamma_trip_done == col.ops = <<"new", "conv", "std_decode", "std_encode", "conv">>

\* C25: an 8-bit sRGB colour converted to f32 channels, decoded, encoded
\* and converted back to 8 bits has the channels it started with.
C25_GammaRoundTrip ==
    gamma_trip_done => col.c = [r |-> col.args[1], g |-> col.args[2], b |-> col.args[3]]

\* each channel comes back as 0 when it was below 128 and as 255 otherwise
C25_GammaTripSaturates ==
    gamma_trip_done =>
        \A i \in 1..3 :
            <<col.c.r, col.c.g, col.c.b>>[i]
                = IF Lt(col.args[i], Whole(128)) THEN Whole(0) ELSE Whole(255)

(***************************************************************************)
(* Properties of the helper clamp                                          *)
(***************************************************************************)
\* partial_cmp is None
incomparable(x, y) == x.k = "nan" \/ y.k = "nan"

\* value when min < value < max, min when value <= min, max when value >= max
clamp_of_comparable(value, min, max, ret) ==
    /\ (Lt(min, value) /\ Lt(value, max)) => ret = value
    /\ (Le(value, min) /\ Lt(value, max)) => ret = min
    /\ Ge(value, max) => ret = max

\* C26: clamp(value, min, max) returns min when value cannot be compared
\* with the bounds; otherwise, the bounds being in order, it returns value
\* when min < value < max, min when value <= min and max when value >= max.
C26_ClampIncomparableIsMin ==
    call.fn = "clamp" =>
        LET value == call.args[1]
            min == call.args[2]
            max == call.args[3]
        IN  IF incomparable(value, min) \/ incomparable(value, max) THEN call.ret = min
            ELSE Le(min, max) => clamp_of_comparable(value, min, max, call.ret)

\* the same for the values that can be compared with both bounds
C26_ClampComparable ==
    call.fn = "clamp" =>
        LET value == call.args[1]
            min == call.args[2]
            max == call.args[3]
        IN  (~incomparable(value, min) /\ ~incomparable(value, max) /\ Le(min, max))
                => clamp_of_comparable(value, min, max, call.ret)

\* a NaN value is clamped to max
C26_ClampNaNIsMax ==
    (call.fn = "clamp" /\ call.args[1].k = "nan") => call.ret = call.args[3]

\* the colour is the result of a normalize: of new, which normalizes its
\* arguments, or of a call of normalize
just_normalized ==
    /\ hsv.kind = "hsv"
    /\ hsv.ops[Len(hsv.ops)] \in {"new", "normalize"}

\* C27: HSVColor::normalize is idempotent: normalizing the result of a
\* normalize, whatever the channels it was given, returns that result.
C27_NormalizeIdempotent ==
    just_normalized => HSVColor_normalize(hsv.H, hsv.T, hsv.c) = hsv.c

\* the same for a colour made by new from a saturation and a value in range
C27_NormalizeIdempotentInRange ==
    (/\ hsv.kind = "hsv"
     /\ hsv.ops = <<"new", "normalize">>
     /\ in_range(hsv.T, hsv.args[2])
     /\ in_range(hsv.T, hsv.args[3]))
        => hsv.c = HSVColor_new(hsv.H, hsv.T, hsv.args[1], hsv.args[2], hsv.args[3])

(***************************************************************************)
(* Properties of the base colours                                          *)
(***************************************************************************)
\* col is an 8-bit colour made of the base colour that srgb24 was called on,
\* by RGBColor::from or by HSVColor::from, rgb() and conv::<u8>()
same_base_color ==
    /\ call.fn = "srgb24"
    /\ col.kind = "rgb"
    /\ col.T = "u8"
    /\ col.ops \in {<<"from">>, <<"from", "rgb", "conv">>}
    /\ col.args = call.args

\* C28: for each base colour, RGBColor::<u8, SRGBSpace>::from, srgb24() and
\* HSVColor::from followed by rgb() and a conversion to u8 give the same
\* triple.
C28_BaseColorsAgree == same_base_color => col.c = call.ret

\* the same for the base colours other than Grey
C28_SaturatedBaseColorsAgree ==
    (same_base_color /\ call.args # <<"Grey">>) => col.c = call.ret

(***************************************************************************)
(* Properties of Palette::parse                                            *)
(***************************************************************************)
\* a set-name line is one SETNAME_RE matches, a colour line one that only
\* COLORLINE_RE matches
line_kind(line) ==
    IF SETNAME_RE_captures(line).ok THEN "set"
    ELSE IF COLORLINE_RE_captures(line).ok THEN "color"
    ELSE "other"

\* the index of the nearest set-name line before line i, 0 when none is
nearest_set(lines, i) ==
    IF \E j \in 1..(i - 1) : line_kind(lines[j]) = "set"
    THEN CHOOSE j \in 1..(i - 1) :
            line_kind(lines[j]) = "set"
            /\ \A k \in (j + 1)..(i - 1) : line_kind(lines[k]) # "set"
    ELSE 0

\* among the first n lines a colour line comes before every set-name line
orphan(lines, n) ==
    \E i \in 1..n : line_kind(lines[i]) = "color" /\ nearest_set(lines, i) = 0

\* the colours of the colour lines among the first n whose nearest
\* preceding set-name line declares name, in the order of the lines
expected_colors(lines, n, name) ==
    LET declared(i) ==
            /\ line_kind(lines[i]) = "color"
            /\ nearest_set(lines, i) # 0
            /\ SETNAME_RE_captures(lines[nearest_set(lines, i)]).g[1] = name
        sel == SelectSeq([i \in 1..n |-> i], declared)
    IN  [k \in 1..Len(sel) |->
            from_hex_unchecked(COLORLINE_RE_captures(lines[sel[k]]).g[2]).c]

\* the colours recorded in the sets of that name of the Vec of palette.rs,
\* in their order
RECURSIVE vec_colors(_, _)
vec_colors(colorsets, name) ==
    IF colorsets = <<>> THEN <<>>
    ELSE (IF Head(colorsets).name = name THEN Head(colorsets).colors ELSE <<>>)
         \o vec_colors(Tail(colorsets), name)

\* the colours recorded under that name: in the Vec of palette.rs, or in
\* the HashMap of main.rs
recorded_colors(p, name) ==
    IF p.ver = "palette.rs" THEN vec_colors(p.colorsets, name)
    ELSE IF name \in DOMAIN p.colorsets THEN p.colorsets[name]
    ELSE <<>>

\* the names of the sets recorded and of the sets declared
set_names(lines, p) ==
    (IF p.ver = "palette.rs" THEN {p.colorsets[i].name : i \in DOMAIN p.colorsets}
     ELSE DOMAIN p.colorsets)
    \cup {SETNAME_RE_captures(lines[i]).g[1] :
             i \in {j \in DOMAIN lines : line_kind(lines[j]) = "set"}}

\* the error is returned exactly when a colour line came before any
\* set-name line, and otherwise the sets hold the colours declared in them
parsed_as_declared ==
    /\ pal.res = "Err" <=> orphan(pal.lines, pal.read)
    /\ ~orphan(pal.lines, pal.read) =>
          \A name \in set_names(pal.lines, pal) :
              recorded_colors(pal, name)
                  = expected_colors(pal.lines, pal.read, name)

\* C29: Palette::parse returns Err(ColorWithoutSet) exactly when a colour
\* line is read before any set-name line; otherwise every colour is in the
\* set declared by the nearest preceding set-name line, in file order, and
\* in no other set.
C29_ParseAsDeclared == pal.ver # "none" => parsed_as_declared

\* the same for the parse of palette.rs alone
C29_PaletteRsAsDeclared == pal.ver = "palette.rs" => parsed_as_declared

\* the same for the parse of main.rs on inputs with no empty set name
C29_MainRsNamedSets ==
    (pal.ver = "main.rs" /\ <<>> \notin set_names(pal.lines, pal))
        => parsed_as_declared

(***************************************************************************)
(* Properties of HSVColor::rgb                                             *)
(***************************************************************************)
rgb_called == call.fn \in {"HSVColor::rgb", "color::HSVColor::rgb"}

\* the hue in degrees over 60, as rgb() computes it
sector_hue ==
    IF call.fn = "HSVColor::rgb"
    THEN FDiv("f32", cuwtf(conv(call.args[1], "Deg<f32>", call.args[3].h)), Whole(60))
    ELSE FDiv("f32", call.args[3].h, Whole(60))

\* the sector index is in 0..=6, so the match does not reach its last arm
sector_in_match ==
    /\ Le(as_u8(sector_hue), Whole(6))
    /\ rgb_sector(as_u8(sector_hue), Whole(0), Whole(0)) # PanicRGB

\* rgb() on the same colour with the hue zero
rgb_at_hue_zero ==
    IF call.fn = "HSVColor::rgb"
    THEN rgb_of_hue(call.args[2], Whole(0), cuwtf(call.args[3].v),
                    FMul("f32", cuwtf(call.args[3].s), cuwtf(call.args[3].v)))
    ELSE color_rgb_of_hue(Whole(0), call.args[3].v,
                          FMul("f32", call.args[3].s, call.args[3].v))

\* a colour is returned, its channels are in range, and at the full angle
\* it is the colour of the hue zero
rgb_returned_in_range ==
    /\ call.ret # PanicRGB
    /\ \A ch \in RGBChannels : in_range(call.args[2], call.ret[ch])
    /\ Eq(call.args[3].h, ch_max(call.args[1])) => call.ret = rgb_at_hue_zero

\* C30: rgb() on a colour whose hue is in [0, full_angle] and whose
\* saturation and value are in range finds the sector index in 0..=6,
\* returns channels in [ch_zero, ch_max], and returns at the full angle what
\* it returns at the hue zero.
C30_RgbOfNormal == rgb_called => (sector_in_match /\ rgb_returned_in_range)

\* the match on the sector never reaches the panic of its last arm
C30_SectorInMatch == rgb_called => sector_in_match

\* the same as C30 for the colours with f32 saturation and value
C30_FloatRgbOfNormal ==
    (rgb_called /\ call.args[2] = "f32") => (sector_in_match /\ rgb_returned_in_range)

====
